---- MODULE Spec2Model ----
(***************************************************************************)
(* A model of the Dake daemon (ZivoMartin/Dake): the shared state of a     *)
(* daemon (process registry, fresh-id counters, target-lock set, notifier  *)
(* hub), its dispatcher and its handlers.                                  *)
(*                                                                         *)
(* The module holds several specifications over one set of variables, one  *)
(* per part of the daemon:                                                 *)
(*   SpecLock   State::lock_target / State::unlock_target                  *)
(*   SpecFresh  handle_fresh_request / State::get_fresh_id                 *)
(*   SpecAcks   wait_acks                                                  *)
(*   SpecBuild  one build: new_process, distribute, the dispatcher,        *)
(*              receiv_makefile, execute_make, handle_fetch, handle_log,   *)
(*              handle_error, handle_done, broadcast_done                  *)
(*   SpecStream    the streaming of an artifact (handle_fetch, fetch)      *)
(*   SpecDispatch  the per-connection loop of the daemon                   *)
(*   SpecMakefile  receiv_makefile and the build folders of push_makefile  *)
(*   SpecLog    the logs of the local make, from the pipes to the client   *)
(*   SpecGenerate  RemoteMakefileSet::generate                             *)
(*   SpecFrame  write_message / read_next_message on one stream            *)
(*   SpecConn   the accept loop and the handlers it awaits inline          *)
(*   SpecMutex  the acquisitions of the daemon's mutexes by the handlers   *)
(*   SpecClient the caller: accept, read loop, exit code                   *)
(*   SpecConfig State::new, is_running, load_or_generate                   *)
(*   SpecArgs   remove_x_and_next on the arguments of NewProcess           *)
(* An action constrains the variables of its own part; the next-state      *)
(* relation of a specification leaves those of the other parts unchanged.  *)
(***************************************************************************)
EXTENDS Integers, Sequences, FiniteSets, TLC

(***************************************************************************)
(* Bounds of the model.                                                    *)
(***************************************************************************)
\* Number of concurrent handlers calling lock_target (fetch handlers running
\* execute_make with a target).
NumHandlers == 3
\* Number of distinct target names of the one project.
NumTargets == 2

\* Number of FreshId requests in flight on the daemon.
NumRequests == 3
\* Number of projects (caller directories) the requests come from.
NumProjects == 2

\* Largest number of streams handed to wait_acks.
NumStreams == 3

\* Number of Fetch requests the local make child issues during the build.
NumFetch == 2
\* Number of log messages sent to the caller daemon during the build.
MaxLogs == 1

\* constants.rs: the first id handed out; id 0 is the process-less id.
INITIAL_PROCESS_ID == 1

Handlers == 1..NumHandlers
Requests == 1..NumRequests
Projects == 1..NumProjects
Streams == 1..NumStreams
Targets == 1..NumTargets
NoTarget == 0

\* The daemons of the build: "A" is the caller's daemon, "B" another host.
Daemons == {"A", "B"}
CallerDaemon == "A"
\* The hosts of the remote makefiles a NewProcess message may carry.
HostLists == {<< >>, <<"A">>, <<"B">>, <<"A", "B">>}
\* The executions of execute_make: the local make of new_process (no target)
\* and one per fetch handler (with a target).
Fetches == 1..NumFetch
LocalMake == 0
Execs == {LocalMake} \cup Fetches
\* The target the fetch stubs of the build ask for.
FetchedTarget == 1
\* ExitStatus::code() of a child killed by a signal is None.
NoCode == -1
\* The exit statuses of a make child: success, failure with code 2, signal.
ExitStatuses == {0, 2, NoCode}

\* Largest pid id of the dispatcher model (id 0 is the process-less id).
MaxPid == 2
\* The connections the daemon serves, each by its own task.
Conns == {"c1", "c2"}
\* Number of messages a peer writes on one connection.
MaxQueued == 2
\* Number of calls of State::new on the workspace.
MaxStarts == 4
\* The process ids the operating system hands out (it reuses them).
OsPids == 1..3
\* Number of messages the daemon writes to the client of a build.
MaxSent == 3
\* Largest number of arguments the user gives to dake.
MaxArgs == 3
\* caller/run.rs: the name of the temporary makefile of the caller.
TMP_MAKEFILE_NAME == "dake_tmp_makefile"
\* Number of handler tasks that run at the same time.
NumTasks == 3
Tasks == 1..NumTasks
\* No message has been read on the connection yet.
NoMessage == [id |-> 0, kind |-> "none", outcome |-> "none", seq |-> 0]

\* Number of NewMakefile messages handled in the model of the build folders.
MaxMakefiles == 2
\* The ids of the pids of that model (ids handed out by get_fresh_id).
MkIds == {1, 2}
\* Their projects: the socket of the caller and its working directory, as
\* the strings hash_socket_path feeds to the hasher.
MkProjects == {[sock |-> <<"h1", ":", "1">>, path |-> <<"/", "p">>],
               [sock |-> <<"h2", ":", "1">>, path |-> <<"/", "p">>]}
MkPids == [id : MkIds, project_id : MkProjects]
\* Makefile texts and process datas of the NewMakefile messages.
MkTexts == {"t1", "t2"}
MkDatas == {"d1", "d2"}

\* Number of chunks the make child writes to each of its pipes at most.
MaxChunks == 2
\* The pipes of a make child, each read by its own forwarder task.
Pipes == {"stdout", "stderr"}

\* Number of messages written on the stream of the framing model.
MaxMessages == 2
\* MessageHeader::SIZE: 8 bytes of size and one byte of kind.
HeaderSize == 9
\* MessageKind as u8: DaemonMessage, ProcessMessage, AckMessage, FetcherMessage.
MessageKindBytes == 0..3
\* The serialized messages written in the model.
Payloads == {<<7>>, <<9>>, <<7, 9>>}

\* Number of tokens of the token sequences given to generate at most.
MaxTokens == 3
\* The ip of the caller's socket, and the ips and sockets of the labels.
CallerIp == "A"
CallerSock == [ip |-> "A", port |-> 1]
LabelSocks == {[ip |-> "A", port |-> 1], [ip |-> "B", port |-> 1],
               [ip |-> "B", port |-> 2], [ip |-> "C", port |-> 1]}
Ips == {"A", "B", "C"}
\* Token::Target has an optional label.
NoLabel == [ip |-> "none", port |-> 0]
\* The tokens of the lexer: raw text, target rules, the RootDef directive.
Tokens ==
    [kind : {"RawText"}, text : {"r1", "r2"}, label : {NoLabel}]
    \cup [kind : {"Target"}, text : {"t1", "t2"}, label : LabelSocks \cup {NoLabel}]
    \cup [kind : {"Directive"}, text : {"/root"}, label : {[ip |-> "B", port |-> 0]}]

VARIABLES
    \* ---- target locks (daemon/memory/state.rs) ----
    target_locks,   \* State.target_locks: the targets of the project that are locked
    chan0,          \* whether the project's process-less channel (id 0) exists in the hub
    subq,           \* subq[h]: the queue of h's subscriber on the process-less channel
    subscribed,     \* the handlers that hold a live subscriber on the process-less channel
    hpc,            \* hpc[h]: where handler h is in lock_target / unlock_target
    htgt,           \* htgt[h]: the target h passed to lock_target
    unlockRes,      \* unlockRes[h]: what unlock_target returned to h
    \* ---- fresh ids (handle_fresh_request, State::get_fresh_id) ----
    id_database,    \* State.id_database: project -> counter (0: no entry yet)
    fregistry,      \* State.processes of the daemon: the registered <<id, project>>
    fpc,            \* fpc[r]: where the handler of FreshId request r is
    fproj,          \* fproj[r]: the project of request r (0: not received yet)
    fid,            \* fid[r]: the id get_fresh_id returned to r (-1: none)
    returned,       \* returned[p]: the ids get_fresh_id returned for p, in order
    freplies,       \* the pids written in FreshId replies: <<id, project>>
    \* ---- wait_acks (daemon/operations/wait_acks.rs) ----
    ackN,           \* streams.len() of the call (-1: not called yet)
    apc,            \* apc[s]: where the task of stream s is
    got,            \* got[s]: what the task of stream s read from its stream
    ackChan,        \* the mpsc channel from the tasks to the main loop
    ackResult,      \* what wait_acks did: none, pending, ok, err, panic
    \* ---- one build with pid P, P.id >= 1 (SpecBuild) ----
    hosts,          \* the hosts of the makefiles of the NewProcess message, in order
    registry,       \* registry[d]: P in State.processes of d: absent, default, full
    npc,            \* where the new_process handler is
    npExit,         \* the exit_code the loop of new_process broke with
    npVia,          \* which branch produced it: none, make, error
    distIdx,        \* distribute: index of the next makefile to send
    client,         \* the ProcessMessages written on the client stream, in order
    nmSeen,         \* nmSeen[d]: the NewMakefile for d: none, sent, handled, dropped
    acks,           \* acks[d]: the ack of d received by distribute: none, ok, failure
    doneMsg,        \* doneMsg[d]: the Done for d: none, sent, removed, acked, dropped
    hubState,       \* hubState[d]: channel_state(P) in the hub of d: uninit, running
    npSub,          \* new_process holds a live subscriber on the channel of P
    npq,            \* the queue of that subscriber
    epc,            \* epc[e]: where execution e of execute_make is
    eres,           \* eres[e]: what execute_make returned: none, status, aborted, err
    emSub,          \* emSub[e]: e holds a live subscriber on the channel of P
    emDone,         \* emDone[e]: a Notif::Done is pending in the queue of e's subscriber
    child,          \* child[e]: the make child of e: none, running, exited, killed
    ccode,          \* ccode[e]: the exit status of the child (NoCode: signal / none yet)
    fh,             \* fh[f]: where the handler of Fetch f is
    fhHost,         \* fhHost[f]: the daemon Fetch f was sent to
    fhTarget,       \* fhTarget[f]: the target of Fetch f
    errNet,         \* MakeError messages in flight to the caller daemon
    logNet,         \* number of log messages in flight to the caller daemon
    logsOut,        \* number of log messages sent to the caller daemon so far
    \* ---- streaming of an artifact (handle_fetch step 5, fetch step 4) ----
    file,           \* the bytes of the artifact file on the participant
    rpos,           \* the read position of the BufReader in the file
    objects,        \* the payloads of the Object messages sent, in order
    received,       \* how many of them the fetcher has read from its stream
    written,        \* the bytes the fetcher has written to its output file
    spc,            \* where the streaming loop is: loop, done
    \* ---- the dispatcher of one daemon (daemon/listen.rs) ----
    dreg,           \* State.processes: the ids of the registered pids
    dfresh,         \* the last id handed out by get_fresh_id
    dconn,          \* dconn[c]: the task of connection c: open, closed
    dlast,          \* dlast[c]: the last message read on c and what was done with it
    \* ---- receiv_makefile and the build folders (makefile_handler.rs, fs.rs) ----
    mdisk,          \* mdisk[b]: the build folder named b in the dake directory
    mreg,           \* State.processes: pid -> the ProcessDatas registered (or absent)
    mlast,          \* mlast[p]: the last NewMakefile handled for pid p
    mcount,         \* mcount[p]: how many NewMakefile were handled for pid p
    mreplies,       \* the acks receiv_makefile wrote, in order
    mhub,           \* the notifications published on the notifier hub, in order
    \* ---- the logs of the local make (process_make.rs, log_handler.rs) ----
    lchild,         \* the make child: running, exited
    lwrote,         \* lwrote[p]: how many chunks the child has written to pipe p
    lpipe,          \* lpipe[p]: the chunks in pipe p the forwarder has not read yet
    lfwd,           \* lfwd[p]: the forwarder task of pipe p: run, done
    lconn,          \* lconn[p]: the log messages in flight on the forwarder's connection
    lhubq,          \* the queue of new_process's subscriber on the channel of P
    lmake,          \* the execute_make future: wait, join, done
    lnpc,           \* new_process: loop, returned
    lclient,        \* the messages written on the client stream, in order
    \* ---- RemoteMakefileSet::generate (makefile/generate.rs) ----
    gtokens,        \* the tokens given to generate
    gpos,           \* how many of them the loop has processed
    gmakefiles,     \* makefiles: the makefiles under construction, in order
    gsaw,           \* saw_ips
    gfull,          \* full_fetch_makefile
    groots,         \* root_path_set: ip -> root path ("none": no entry)
    \* ---- message framing on one stream (network/utils.rs, messages.rs) ----
    wire,           \* the bytes written on the stream and not read yet
    wclosed,        \* the writer has closed the stream
    wsent,          \* the messages written, in order: kind, payload, bytes written
    rexp,           \* the kind the reader expects
    rgot,           \* what the calls of read_next_message returned, in order
    rconn,          \* the reading loop: open, closed
    rhandled,       \* how many messages the loop handed on to the dispatch
    \* ---- the loop of a connection and its handlers (daemon/listen.rs) ----
    cinbox,         \* cinbox[c]: the messages the peer wrote that the loop has not read
    csent,          \* csent[c]: how many messages the peer has written on c
    chand,          \* chand[c]: the message whose handler the loop awaits (0: none)
    cev,            \* cev[c]: what the loop of c did, in order
    \* ---- the mutexes of State and the tasks that take them ----
    tkind,          \* tkind[t]: the handler task t runs ("none": not started)
    tpc,            \* tpc[t]: the step of its handler task t is at
    held,           \* held[t]: the mutexes of State task t holds a guard of
    stuck,          \* a mutex whose holder never releases it ("none": no such mutex)
    unlocked,       \* a TargetUnlock was broadcast on the process-less channel
    \* ---- the config file of the workspace (daemon/memory/config.rs) ----
    config_file,    \* the os_pid of config.json (0: there is no file)
    daemons,        \* the os pids of the daemons of the workspace that are running
    startLog,       \* the calls of State::new, in order: os pid and outcome
    \* ---- the client of a build (caller/start.rs) ----
    kpc,            \* start: accept, read, exited
    kexit,          \* the exit code of the client process
    kdaemon,        \* the daemon's end of the stream: idle, connected, hung, closed, gone
    kwire,          \* the messages written by the daemon and not read yet
    ksent,          \* the messages the daemon wrote, in order
    \* ---- remove_x_and_next (new_process_handler.rs) ----
    xargs,          \* the args of the NewProcess message
    xpos,           \* how many of them the filter has seen
    xskip,          \* skip_next
    xout,           \* the elements the filter kept, in order
    xmake           \* the make invocation of a participant: whether it ran, its args

lockVars == <<target_locks, chan0, subq, subscribed, hpc, htgt, unlockRes>>

freshVars == <<id_database, fregistry, fpc, fproj, fid, returned, freplies>>

ackVars == <<ackN, apc, got, ackChan, ackResult>>

buildVars == <<hosts, registry, npc, npExit, npVia, distIdx, client, nmSeen,
               acks, doneMsg, hubState, npSub, npq, epc, eres, emSub, emDone,
               child, ccode, fh, fhHost, fhTarget, errNet, logNet, logsOut>>

streamVars == <<file, rpos, objects, received, written, spc>>

dispatchVars == <<dreg, dfresh, dconn, dlast>>

mkVars == <<mdisk, mreg, mlast, mcount, mreplies, mhub>>

\* The variables of the parts that follow the dispatcher.
logVars == <<lchild, lwrote, lpipe, lfwd, lconn, lhubq, lmake, lnpc, lclient>>

genVars == <<gtokens, gpos, gmakefiles, gsaw, gfull, groots>>

frameVars == <<wire, wclosed, wsent, rexp, rgot, rconn, rhandled>>

connVars == <<cinbox, csent, chand, cev>>

\* The variables of the parts added last.
mutexVars == <<tkind, tpc, held, stuck, unlocked>>

configVars == <<config_file, daemons, startLog>>

clientVars == <<kpc, kexit, kdaemon, kwire, ksent>>

argsVars == <<xargs, xpos, xskip, xout, xmake>>

lateVars == <<connVars, mutexVars, configVars, clientVars, argsVars>>

extraVars == <<mkVars, logVars, genVars, frameVars, lateVars>>

vars == <<lockVars, freshVars, ackVars, buildVars, streamVars, dispatchVars,
          extraVars>>

(***************************************************************************)
(* The notifier hub (crate notifier_hub, used through subscribe and        *)
(* arc_send).  A channel exists once somebody subscribed to it; arc_send   *)
(* on a channel that does not exist fails ("The channel ... was not        *)
(* initialised"), otherwise it hands the notification to every subscriber  *)
(* that is subscribed at that moment.                                      *)
(***************************************************************************)
\* hub.arc_send(TargetUnlock{t}, process-less id): the queues after the send.
HubBroadcast(q, subs, t) ==
    [h \in Handlers |-> IF h \in subs THEN Append(q[h], t) ELSE q[h]]

(***************************************************************************)
(* State::lock_target                                                      *)
(***************************************************************************)
\* A handler (execute_make with a target) calls lock_target(project, t).
CallLockTarget(h, t) ==
    /\ hpc[h] = "idle"
    /\ hpc' = [hpc EXCEPT ![h] = "insert"]
    /\ htgt' = [htgt EXCEPT ![h] = t]
    /\ UNCHANGED <<target_locks, chan0, subq, subscribed, unlockRes>>

\* A wrong insert: reports the target free without looking at the set.
LockInsertBlind(h) ==
    /\ hpc[h] = "insert"
    /\ target_locks' = target_locks \cup {htgt[h]}
    /\ hpc' = [hpc EXCEPT ![h] = "holding"]
    /\ UNCHANGED <<chan0, subq, subscribed, htgt, unlockRes>>

\* One turn of the loop: under the target_locks mutex, insert (project, t);
\* was_free decides between returning Ok and going to subscribe.
LockInsert(h) ==
    /\ hpc[h] = "insert"
    /\ LET was_free == htgt[h] \notin target_locks
       IN  /\ target_locks' = target_locks \cup {htgt[h]}
           /\ hpc' = [hpc EXCEPT ![h] = IF was_free THEN "holding" ELSE "subscribe"]
    /\ UNCHANGED <<chan0, subq, subscribed, htgt, unlockRes>>

\* The target was locked: under the notifier_hub mutex, subscribe to the
\* project's process-less channel (creating it when it does not exist).
LockSubscribe(h) ==
    /\ hpc[h] = "subscribe"
    /\ chan0' = TRUE
    /\ subscribed' = subscribed \cup {h}
    /\ subq' = [subq EXCEPT ![h] = <<>>]
    /\ hpc' = [hpc EXCEPT ![h] = "recv"]
    /\ UNCHANGED <<target_locks, htgt, unlockRes>>

\* The notifier_hub mutex could not be taken within MUTEX_LOCK_TIMEOUT:
\* lock_target returns the error, the target is not acquired.
LockSubscribeTimeout(h) ==
    /\ hpc[h] = "subscribe"
    /\ hpc' = [hpc EXCEPT ![h] = "returned"]
    /\ UNCHANGED <<target_locks, chan0, subq, subscribed, htgt, unlockRes>>

\* subscriber.recv(): a TargetUnlock for the awaited target ends the inner
\* loop (the subscriber is dropped, the outer loop retries the insert); any
\* other notification is skipped.
LockRecv(h) ==
    /\ hpc[h] = "recv"
    /\ Len(subq[h]) > 0
    /\ IF Head(subq[h]) = htgt[h]
       THEN /\ hpc' = [hpc EXCEPT ![h] = "insert"]
            /\ subscribed' = subscribed \ {h}
            /\ subq' = [subq EXCEPT ![h] = <<>>]
       ELSE /\ subq' = [subq EXCEPT ![h] = Tail(subq[h])]
            /\ UNCHANGED <<hpc, subscribed>>
    /\ UNCHANGED <<target_locks, chan0, htgt, unlockRes>>

(***************************************************************************)
(* State::unlock_target                                                    *)
(***************************************************************************)
\* First block: under the target_locks mutex, remove (project, t).
UnlockRemove(h) ==
    /\ hpc[h] = "holding"
    /\ target_locks' = target_locks \ {htgt[h]}
    /\ hpc' = [hpc EXCEPT ![h] = "unlock_send"]
    /\ UNCHANGED <<chan0, subq, subscribed, htgt, unlockRes>>

\* Second block: under the notifier_hub mutex, arc_send TargetUnlock{t} on
\* the process-less channel; a send error is returned with `?`.
UnlockSend(h) ==
    /\ hpc[h] = "unlock_send"
    /\ IF chan0
       THEN /\ subq' = HubBroadcast(subq, subscribed, htgt[h])
            /\ unlockRes' = [unlockRes EXCEPT ![h] = "ok"]
       ELSE /\ unlockRes' = [unlockRes EXCEPT ![h] = "err"]
            /\ UNCHANGED subq
    /\ hpc' = [hpc EXCEPT ![h] = "returned"]
    /\ UNCHANGED <<target_locks, chan0, subscribed, htgt>>

\* The notifier_hub mutex times out in unlock_target: the error is returned
\* after the target has been removed, nothing is broadcast.
UnlockSendTimeout(h) ==
    /\ hpc[h] = "unlock_send"
    /\ unlockRes' = [unlockRes EXCEPT ![h] = "err"]
    /\ hpc' = [hpc EXCEPT ![h] = "returned"]
    /\ UNCHANGED <<target_locks, chan0, subq, subscribed, htgt>>

\* execute_make returns between lock_target and unlock_target without
\* unlocking (a `?` on the makefile or the process data, a spawn failure,
\* or the return on Done): the pair stays in the lock set.
ReturnHoldingLock(h) ==
    /\ hpc[h] = "holding"
    /\ hpc' = [hpc EXCEPT ![h] = "leaked"]
    /\ UNCHANGED <<target_locks, chan0, subq, subscribed, htgt, unlockRes>>

InitLockVars ==
    /\ target_locks = {}
    /\ chan0 = FALSE
    /\ subq = [h \in Handlers |-> <<>>]
    /\ subscribed = {}
    /\ hpc = [h \in Handlers |-> "idle"]
    /\ htgt = [h \in Handlers |-> NoTarget]
    /\ unlockRes = [h \in Handlers |-> "none"]

InitFreshVars ==
    /\ id_database = [p \in Projects |-> 0]
    /\ fregistry = {}
    /\ fpc = [r \in Requests |-> "idle"]
    /\ fproj = [r \in Requests |-> 0]
    /\ fid = [r \in Requests |-> -1]
    /\ returned = [p \in Projects |-> <<>>]
    /\ freplies = {}

InitAckVars ==
    /\ ackN = -1
    /\ apc = [s \in Streams |-> "idle"]
    /\ got = [s \in Streams |-> "none"]
    /\ ackChan = <<>>
    /\ ackResult = "none"

\* The build starts after the FreshId exchange: P is registered on the
\* caller's daemon with default data, and on no other daemon.
InitBuildVars ==
    /\ hosts = << >>
    /\ registry = [d \in Daemons |-> IF d = CallerDaemon THEN "default" ELSE "absent"]
    /\ npc = "idle"
    /\ npExit = NoCode
    /\ npVia = "none"
    /\ distIdx = 1
    /\ client = << >>
    /\ nmSeen = [d \in Daemons |-> "none"]
    /\ acks = [d \in Daemons |-> "none"]
    /\ doneMsg = [d \in Daemons |-> "none"]
    /\ hubState = [d \in Daemons |-> "uninit"]
    /\ npSub = FALSE
    /\ npq = << >>
    /\ epc = [e \in Execs |-> "none"]
    /\ eres = [e \in Execs |-> "none"]
    /\ emSub = [e \in Execs |-> FALSE]
    /\ emDone = [e \in Execs |-> FALSE]
    /\ child = [e \in Execs |-> "none"]
    /\ ccode = [e \in Execs |-> NoCode]
    /\ fh = [f \in Fetches |-> "none"]
    /\ fhHost = [f \in Fetches |-> CallerDaemon]
    /\ fhTarget = [f \in Fetches |-> NoTarget]
    /\ errNet = {}
    /\ logNet = 0
    /\ logsOut = 0

\* No artifact is being streamed.
InitStreamVars ==
    /\ file = << >>
    /\ rpos = 0
    /\ objects = << >>
    /\ received = 0
    /\ written = << >>
    /\ spc = "done"

\* The daemon has just started: nothing is registered, no message was read.
InitDispatchVars ==
    /\ dreg = {}
    /\ dfresh = 0
    /\ dconn = [c \in Conns |-> "open"]
    /\ dlast = [c \in Conns |-> NoMessage]

\* hash_socket_path: the blake3 hash of the socket string followed by the
\* path string.  The hash is taken to be free of collisions: it is the
\* string that was hashed.
hash_socket_path(pid) == pid.project_id.sock \o pid.project_id.path

\* get_makefile_path: the folder of the dake directory named by the hex
\* encoding of the first 16 bytes of the printed hash; folders are named in
\* the model by what was hashed.
get_makefile_path(pid) == hash_socket_path(pid)

BuildFolders == {get_makefile_path(p) : p \in MkPids}

\* No NewMakefile has been handled for the pid.
NoMakefile == [text |-> "none", datas |-> "none", ok |-> FALSE]

\* The daemon has just started; the dake directory is empty.
InitMkVars ==
    /\ mdisk = [b \in BuildFolders |-> "absent"]
    /\ mreg = [p \in MkPids |-> "absent"]
    /\ mlast = [p \in MkPids |-> NoMakefile]
    /\ mcount = [p \in MkPids |-> 0]
    /\ mreplies = << >>
    /\ mhub = << >>

\* new_process is in its loop, the make child has just been spawned and
\* its forwarders are connected to the caller daemon.
InitLogVars ==
    /\ lchild = "running"
    /\ lwrote = [p \in Pipes |-> 0]
    /\ lpipe = [p \in Pipes |-> << >>]
    /\ lfwd = [p \in Pipes |-> "run"]
    /\ lconn = [p \in Pipes |-> << >>]
    /\ lhubq = << >>
    /\ lmake = "wait"
    /\ lnpc = "loop"
    /\ lclient = << >>

\* generate has not been called.
InitGenVars ==
    /\ gtokens = << >>
    /\ gpos = 0
    /\ gmakefiles = << >>
    /\ gsaw = {}
    /\ gfull = << >>
    /\ groots = [i \in Ips |-> "none"]

\* A stream nothing was written on, read by the daemon's loop.
InitFrameVars ==
    /\ wire = << >>
    /\ wclosed = FALSE
    /\ wsent = << >>
    /\ rexp = 0
    /\ rgot = << >>
    /\ rconn = "open"
    /\ rhandled = 0

\* The connections are accepted, nothing was written on them.
InitConnVars ==
    /\ cinbox = [c \in Conns |-> << >>]
    /\ csent = [c \in Conns |-> 0]
    /\ chand = [c \in Conns |-> 0]
    /\ cev = [c \in Conns |-> << >>]

\* No handler runs, every mutex of State is free.
InitMutexVars ==
    /\ tkind = [t \in Tasks |-> "none"]
    /\ tpc = [t \in Tasks |-> 0]
    /\ held = [t \in Tasks |-> {}]
    /\ stuck = "none"
    /\ unlocked = FALSE

\* A workspace no daemon was ever started on.
InitConfigVars ==
    /\ config_file = 0
    /\ daemons = {}
    /\ startLog = << >>

\* The client has sent NewProcess and waits for the daemon's connection.
InitClientVars ==
    /\ kpc = "accept"
    /\ kexit = NoCode
    /\ kdaemon = "idle"
    /\ kwire = << >>
    /\ ksent = << >>

\* No participant has run make.
NoMake == [run |-> FALSE, args |-> << >>]

\* No NewProcess was received.
InitArgsVars ==
    /\ xargs = << >>
    /\ xpos = 0
    /\ xskip = FALSE
    /\ xout = << >>
    /\ xmake = NoMake

InitLateVars ==
    /\ InitConnVars /\ InitMutexVars /\ InitConfigVars /\ InitClientVars
    /\ InitArgsVars

InitExtra ==
    InitMkVars /\ InitLogVars /\ InitGenVars /\ InitFrameVars /\ InitLateVars

\* The parts of the state a specification does not exercise, at rest.
InitOthers == InitStreamVars /\ InitDispatchVars /\ InitExtra

InitLock ==
    InitLockVars /\ InitFreshVars /\ InitAckVars /\ InitBuildVars /\ InitOthers

LockFrame ==
    UNCHANGED <<freshVars, ackVars, buildVars, streamVars, dispatchVars,
                extraVars>>

NextLock ==
    \E h \in Handlers :
        \/ \E t \in Targets : CallLockTarget(h, t) /\ LockFrame
        \/ LockInsert(h) /\ LockFrame
        \/ LockSubscribe(h) /\ LockFrame
        \/ LockSubscribeTimeout(h) /\ LockFrame
        \/ LockRecv(h) /\ LockFrame
        \/ UnlockRemove(h) /\ LockFrame
        \/ UnlockSend(h) /\ LockFrame
        \/ UnlockSendTimeout(h) /\ LockFrame
        \/ ReturnHoldingLock(h) /\ LockFrame

SpecLock == InitLock /\ [][NextLock]_vars

(***************************************************************************)
(* Claims about the target lock                                            *)
(***************************************************************************)
\* The handlers between a successful lock_target(p, t) and the removal done
\* by their unlock_target(p, t).
Holders(t) == {h \in Handlers : hpc[h] = "holding" /\ htgt[h] = t}

\* C1: in every reachable state, for each target t of the project at most
\* one handler is between a successful lock_target(p, t) and its matching
\* unlock_target(p, t), however many handlers call lock_target on the pair;
\* and whoever is there has the pair in the lock set.
C1_AtMostOneHolder ==
    \A t \in Targets :
        /\ Cardinality(Holders(t)) <= 1
        /\ Holders(t) # {} => t \in target_locks

\* C1 witness: one handler holds t while another one, having failed its
\* insert on the same t, waits on the process-less channel.
C1_Witness ==
    \E h, w \in Handlers :
        /\ h # w
        /\ hpc[h] = "holding"
        /\ hpc[w] = "recv"
        /\ htgt[w] = htgt[h]

\* A handler has returned from execute_make for good.
Returned(h) == hpc[h] \in {"returned", "leaked"}

\* C2: a handler that called lock_target(p, t) while (p, t) was held
\* acquires the lock once the holder has called unlock_target(p, t).  As a
\* property a finite run refutes: when the waiter sits in recv(), t is no
\* longer in the lock set (the holder's unlock_target removed it) and every
\* other handler has returned, then a TargetUnlock{t} is pending in the
\* waiter's queue, so that it wakes up and retries.
C2_WaiterIsWoken ==
    \A w \in Handlers :
        ( /\ hpc[w] = "recv"
          /\ htgt[w] \notin target_locks
          /\ \A h \in Handlers \ {w} : Returned(h) )
        => \E i \in 1..Len(subq[w]) : subq[w][i] = htgt[w]

(***************************************************************************)
(* handle_fresh_request and State::get_fresh_id                            *)
(***************************************************************************)
\* A counter update that forgets the increment of an existing entry.
FreshEntryNoIncrement(db, p) ==
    IF db[p] = 0 THEN INITIAL_PROCESS_ID + 1 ELSE db[p]

\* id_database.entry(project).and_modify(|e| *e += 1).or_insert(INITIAL + 1):
\* the value of the entry after the call.  (The counter is a u64; it cannot
\* wrap within any run of the model.)
FreshEntry(db, p) ==
    IF db[p] = 0 THEN INITIAL_PROCESS_ID + 1 ELSE db[p] + 1

\* The dispatcher hands a FreshId message (process-less pid of project p)
\* to handle_fresh_request.
FreshReceive(r, p) ==
    /\ fpc[r] = "idle"
    /\ fproj' = [fproj EXCEPT ![r] = p]
    /\ fpc' = [fpc EXCEPT ![r] = "alloc"]
    /\ UNCHANGED <<id_database, fregistry, fid, returned, freplies>>

\* get_fresh_id under the id_database mutex: bump the entry, return entry - 1.
GetFreshId(r) ==
    /\ fpc[r] = "alloc"
    /\ LET entry == FreshEntry(id_database, fproj[r])
           id == entry - 1
       IN  /\ id_database' = [id_database EXCEPT ![fproj[r]] = entry]
           /\ fid' = [fid EXCEPT ![r] = id]
           /\ returned' = [returned EXCEPT ![fproj[r]] = Append(@, id)]
    /\ fpc' = [fpc EXCEPT ![r] = "register"]
    /\ UNCHANGED <<fregistry, fproj, freplies>>

\* The id_database mutex times out: get_fresh_id fails, the handler logs
\* and returns without a reply.
GetFreshIdTimeout(r) ==
    /\ fpc[r] = "alloc"
    /\ fpc' = [fpc EXCEPT ![r] = "failed"]
    /\ UNCHANGED <<id_database, fregistry, fproj, fid, returned, freplies>>

\* register_process -> set_process_datas: insert the pid with default data.
FreshRegister(r) ==
    /\ fpc[r] = "register"
    /\ fregistry' = fregistry \cup {<<fid[r], fproj[r]>>}
    /\ fpc' = [fpc EXCEPT ![r] = "reply"]
    /\ UNCHANGED <<id_database, fproj, fid, returned, freplies>>

\* set_process_datas could not take the processes mutex: it only warns, and
\* the handler goes on to reply.
FreshRegisterTimeout(r) ==
    /\ fpc[r] = "register"
    /\ fpc' = [fpc EXCEPT ![r] = "reply"]
    /\ UNCHANGED <<id_database, fregistry, fproj, fid, returned, freplies>>

\* write_message(stream, ProcessMessage::FreshId with the new pid); ok is
\* whether the write succeeded (a failure is only logged).
FreshReply(r, ok) ==
    /\ fpc[r] = "reply"
    /\ freplies' = IF ok THEN freplies \cup {<<fid[r], fproj[r]>>} ELSE freplies
    /\ fpc' = [fpc EXCEPT ![r] = "done"]
    /\ UNCHANGED <<id_database, fregistry, fproj, fid, returned>>

InitFresh ==
    InitLockVars /\ InitFreshVars /\ InitAckVars /\ InitBuildVars /\ InitOthers

FreshFrame ==
    UNCHANGED <<lockVars, ackVars, buildVars, streamVars, dispatchVars,
                extraVars>>

NextFresh ==
    \E r \in Requests :
        \/ \E p \in Projects : FreshReceive(r, p) /\ FreshFrame
        \/ GetFreshId(r) /\ FreshFrame
        \/ GetFreshIdTimeout(r) /\ FreshFrame
        \/ FreshRegister(r) /\ FreshFrame
        \/ FreshRegisterTimeout(r) /\ FreshFrame
        \/ \E ok \in BOOLEAN : FreshReply(r, ok) /\ FreshFrame

SpecFresh == InitFresh /\ [][NextFresh]_vars

(***************************************************************************)
(* Claims about fresh ids                                                  *)
(***************************************************************************)
\* C3: for any interleaving of FreshId requests of one project, the first
\* get_fresh_id returns 1 and every later one returns a value greater than
\* all values returned before (here: the i-th call returns i); 0 is never
\* returned and no two requests hold the same id.
C3_FreshIdsIncrease ==
    /\ \A p \in Projects :
          /\ Len(returned[p]) > 0 => returned[p][1] = 1
          /\ \A i, j \in 1..Len(returned[p]) :
                i < j => returned[p][i] < returned[p][j]
          /\ \A i \in 1..Len(returned[p]) : returned[p][i] # 0
    /\ \A r, q \in Requests :
          (r # q /\ fid[r] # -1 /\ fid[q] # -1 /\ fproj[r] = fproj[q])
          => fid[r] # fid[q]

\* C3 witness: three requests of one project were served while interleaved:
\* the third id was allocated before the first request was registered.
C3_Witness ==
    \E p \in Projects :
        /\ Len(returned[p]) = 3
        /\ \E r \in Requests : fproj[r] = p /\ fid[r] = 1 /\ fpc[r] = "register"

(***************************************************************************)
(* wait_acks                                                               *)
(***************************************************************************)
\* What a task can find on its stream when it reads the ack.
AckOutcomes == {"ok", "failure", "undecodable", "eof", "readerr"}

\* What the task forwards on the channel: Some(AckMessage) or None for a
\* message that does not decode; nothing for a closed stream or a read error.
AckForward(o) ==
    CASE o = "ok" -> <<"SomeOk">>
      [] o = "failure" -> <<"SomeFailure">>
      [] o = "undecodable" -> <<"None">>
      [] OTHER -> <<>>

\* The drain loop `while let Ok(message) = receiver.try_recv()`: messages in
\* channel order from index i on, count Oks, bail on Failure or None.
RECURSIVE AcksDrain(_, _, _)
AcksDrain(chan, i, ack_count) ==
    IF i > Len(chan)
    THEN ack_count
    ELSE IF chan[i] = "SomeOk"
         THEN AcksDrain(chan, i + 1, ack_count + 1)
         ELSE -1

\* The all_tasks branch of the select: drain, then ack_count == host_amount.
AcksOutcome(chan, host_amount) ==
    IF AcksDrain(chan, 1, 0) = host_amount THEN "ok" ELSE "err"

\* wait_acks(streams, timeout) is called with n streams.  The channel is
\* created with capacity streams.len(): tokio's mpsc::channel panics on a
\* capacity of 0, so a call with no stream panics before anything is read.
WaitAcksCall(n) ==
    /\ ackResult = "none"
    /\ ackN' = n
    /\ ackResult' = IF n = 0 THEN "panic" ELSE "pending"
    /\ apc' = [s \in Streams |-> IF s <= n THEN "peer" ELSE "idle"]
    /\ UNCHANGED <<got, ackChan>>

\* stream.peer_addr(): on an error the task returns without reading.
AckPeerAddr(s, ok) ==
    /\ ackResult = "pending"
    /\ apc[s] = "peer"
    /\ apc' = [apc EXCEPT ![s] = IF ok THEN "read" ELSE "done"]
    /\ got' = [got EXCEPT ![s] = IF ok THEN @ ELSE "nopeer"]
    /\ UNCHANGED <<ackN, ackChan, ackResult>>

\* read_next_message(stream, AckMessage), decode, forward on the channel.
AckRead(s, o) ==
    /\ ackResult = "pending"
    /\ apc[s] = "read"
    /\ got' = [got EXCEPT ![s] = o]
    /\ ackChan' = ackChan \o AckForward(o)
    /\ apc' = [apc EXCEPT ![s] = "done"]
    /\ UNCHANGED <<ackN, ackResult>>

\* The sleep of the select fires while some task has not finished.
AcksTimeout ==
    /\ ackResult = "pending"
    /\ \E s \in 1..ackN : apc[s] # "done"
    /\ ackResult' = "err"
    /\ UNCHANGED <<ackN, apc, got, ackChan>>

\* join_all(tasks) completes: the main loop drains the channel.
AcksCollect ==
    /\ ackResult = "pending"
    /\ \A s \in 1..ackN : apc[s] = "done"
    /\ ackResult' = AcksOutcome(ackChan, ackN)
    /\ UNCHANGED <<ackN, apc, got, ackChan>>

InitAcks ==
    InitLockVars /\ InitFreshVars /\ InitAckVars /\ InitBuildVars /\ InitOthers

AcksFrame ==
    UNCHANGED <<lockVars, freshVars, buildVars, streamVars, dispatchVars,
                extraVars>>

NextAcks ==
    \/ \E n \in 0..NumStreams : WaitAcksCall(n) /\ AcksFrame
    \/ \E s \in Streams, ok \in BOOLEAN : AckPeerAddr(s, ok) /\ AcksFrame
    \/ \E s \in Streams, o \in AckOutcomes : AckRead(s, o) /\ AcksFrame
    \/ AcksTimeout /\ AcksFrame
    \/ AcksCollect /\ AcksFrame

SpecAcks == InitAcks /\ [][NextAcks]_vars

(***************************************************************************)
(* Claims about the ack barrier                                            *)
(***************************************************************************)
\* Every given stream delivered AckMessage::Ok (before the timeout: a task
\* that has read its ack did so before the sleep fired).
AllDeliveredOk == \A s \in 1..ackN : got[s] = "ok"

\* C7: wait_acks returns success if and only if every one of the given
\* streams delivered an AckMessage::Ok before the timeout; a Failure, an
\* undecodable ack, a stream closed before its ack or the timeout make it
\* fail.
C7_AcksBarrier ==
    (ackResult \notin {"none", "pending"})
    => /\ AllDeliveredOk => ackResult = "ok"
       /\ ackResult = "ok" => AllDeliveredOk
       /\ ~AllDeliveredOk => ackResult = "err"

\* The same statement for the calls with at least one stream.
C7_AcksBarrierNonEmpty ==
    (ackN >= 1 /\ ackResult \notin {"none", "pending"})
    => /\ ackResult \in {"ok", "err"}
       /\ ackResult = "ok" <=> AllDeliveredOk

(***************************************************************************)
(* SpecBuild: one build with pid P                                         *)
(*                                                                         *)
(* The client has obtained P from the caller's daemon "A" (FreshId) and    *)
(* sends NewProcess.  A host of a remote makefile is either another daemon *)
(* ("B") or the caller's daemon itself, reached under another of its       *)
(* addresses ("A").  The client stream and the TCP connections between     *)
(* daemons stay up; a connection attempt may fail.  The mutex of the       *)
(* notifier hub may time out (handle_log holds it while it waits).         *)
(***************************************************************************)
\* listen.rs: the dispatcher hands a message of P (P.id >= 1) to its handler
\* only if P is in State.processes of the daemon; otherwise it skips it.
process_is_registered(d) == registry[d] # "absent"

\* NotifierHub::arc_send(n, P) on a channel that exists: every live
\* subscriber of the channel gets n.  new_process reads its subscriber only
\* in its select! loop: what is queued after it has left the loop is never
\* read and is not kept.  execute_make skips every notification but Done,
\* so only a pending Done is kept for its subscriber.
HubPublish(d, n) ==
    /\ npq' = IF npSub /\ npc = "loop" /\ d = CallerDaemon
              THEN Append(npq, n) ELSE npq
    /\ emDone' = [e \in Execs |->
                    IF /\ emSub[e]
                       /\ (IF e = LocalMake THEN CallerDaemon ELSE fhHost[e]) = d
                       /\ n.kind = "Done"
                    THEN TRUE ELSE emDone[e]]

\* The dispatcher of the caller's daemon admits NewProcess and runs
\* new_process, which builds the process data and calls distribute.
NPReceive(hs) ==
    /\ npc = "idle"
    /\ process_is_registered(CallerDaemon)
    /\ hosts' = hs
    /\ npc' = "distribute"
    /\ UNCHANGED <<registry, npExit, npVia, distIdx, client, nmSeen, acks,
                   doneMsg, hubState, npSub, npq, epc, eres, emSub, emDone,
                   child, ccode, fh, fhHost, fhTarget, errNet, logNet,
                   logsOut>>
    /\ UNCHANGED lockVars

\* A distribute without the guard of the empty case: it waits for acks.
DistributeUnguarded(ok) ==
    /\ npc = "distribute"
    /\ IF ok
       THEN IF Len(hosts) = 0
            THEN /\ npc' = "wait_acks"
                 /\ UNCHANGED <<distIdx, nmSeen>>
            ELSE /\ nmSeen' = [nmSeen EXCEPT ![hosts[distIdx]] = "sent"]
                 /\ distIdx' = distIdx + 1
                 /\ npc' = IF distIdx = Len(hosts) THEN "wait_acks" ELSE "distribute"
       ELSE /\ npc' = "dist_failed"
            /\ UNCHANGED <<distIdx, nmSeen>>
    /\ UNCHANGED <<hosts, registry, npExit, npVia, client, acks, doneMsg,
                   hubState, npSub, npq, epc, eres, emSub, emDone, child,
                   ccode, fh, fhHost, fhTarget, errNet, logNet, logsOut>>
    /\ UNCHANGED lockVars

\* distribute: no makefile: return Ok at once; otherwise send NewMakefile to
\* the next host (send_message may fail: the error is returned), then wait.
Distribute(ok) ==
    /\ npc = "distribute"
    /\ IF Len(hosts) = 0
       THEN /\ ok
            /\ npc' = "set_datas"
            /\ UNCHANGED <<distIdx, nmSeen>>
       ELSE IF ok
       THEN /\ nmSeen' = [nmSeen EXCEPT ![hosts[distIdx]] = "sent"]
            /\ distIdx' = distIdx + 1
            /\ npc' = IF distIdx = Len(hosts) THEN "wait_acks" ELSE "distribute"
       ELSE /\ npc' = "dist_failed"
            /\ UNCHANGED <<distIdx, nmSeen>>
    /\ UNCHANGED <<hosts, registry, npExit, npVia, client, acks, doneMsg,
                   hubState, npSub, npq, epc, eres, emSub, emDone, child,
                   ccode, fh, fhHost, fhTarget, errNet, logNet, logsOut>>
    /\ UNCHANGED lockVars

\* The dispatcher of d skips the NewMakefile: P is not registered on d.
DropNewMakefile(d) ==
    /\ nmSeen[d] = "sent"
    /\ ~process_is_registered(d)
    /\ nmSeen' = [nmSeen EXCEPT ![d] = "dropped"]
    /\ UNCHANGED <<hosts, registry, npc, npExit, npVia, distIdx, client, acks,
                   doneMsg, hubState, npSub, npq, epc, eres, emSub, emDone,
                   child, ccode, fh, fhHost, fhTarget, errNet, logNet,
                   logsOut>>
    /\ UNCHANGED lockVars

\* receiv_makefile on d: register P with the process data of the message,
\* persist the makefile, reply Ack Ok, or Ack Failure if persisting failed.
receiv_makefile(d, pushed) ==
    /\ nmSeen[d] = "sent"
    /\ process_is_registered(d)
    /\ registry' = [registry EXCEPT ![d] = "full"]
    /\ acks' = [acks EXCEPT ![d] = IF pushed THEN "ok" ELSE "failure"]
    /\ nmSeen' = [nmSeen EXCEPT ![d] = "handled"]
    /\ UNCHANGED <<hosts, npc, npExit, npVia, distIdx, client, doneMsg,
                   hubState, npSub, npq, epc, eres, emSub, emDone, child,
                   ccode, fh, fhHost, fhTarget, errNet, logNet, logsOut>>
    /\ UNCHANGED lockVars

HostSet == {hosts[i] : i \in 1..Len(hosts)}

\* distribute, wait_acks: every host has answered: Ok if all acks are Ok.
DistributeAcks ==
    /\ npc = "wait_acks"
    /\ \A d \in HostSet : acks[d] # "none"
    /\ npc' = IF \A d \in HostSet : acks[d] = "ok" THEN "set_datas" ELSE "dist_failed"
    /\ UNCHANGED <<hosts, registry, npExit, npVia, distIdx, client, nmSeen,
                   acks, doneMsg, hubState, npSub, npq, epc, eres, emSub,
                   emDone, child, ccode, fh, fhHost, fhTarget, errNet, logNet,
                   logsOut>>
    /\ UNCHANGED lockVars

\* distribute, wait_acks: the timeout fires while an ack is missing.
DistributeTimeout ==
    /\ npc = "wait_acks"
    /\ \E d \in HostSet : acks[d] = "none"
    /\ npc' = "dist_failed"
    /\ UNCHANGED <<hosts, registry, npExit, npVia, distIdx, client, nmSeen,
                   acks, doneMsg, hubState, npSub, npq, epc, eres, emSub,
                   emDone, child, ccode, fh, fhHost, fhTarget, errNet, logNet,
                   logsOut>>
    /\ UNCHANGED lockVars

\* new_process, distribute failed: write StderrLog then End{1} to the client.
NPDistFailedReport ==
    /\ npc = "dist_failed"
    /\ client' = client \o << [kind |-> "Log", code |-> NoCode],
                              [kind |-> "End", code |-> 1] >>
    /\ npc' = "dist_clean"
    /\ UNCHANGED <<hosts, registry, npExit, npVia, distIdx, nmSeen, acks,
                   doneMsg, hubState, npSub, npq, epc, eres, emSub, emDone,
                   child, ccode, fh, fhHost, fhTarget, errNet, logNet,
                   logsOut>>
    /\ UNCHANGED lockVars

\* A failure branch that returns without cleaning the registry.
NPDistFailedReturn ==
    /\ npc = "dist_clean"
    /\ npc' = "returned"
    /\ UNCHANGED <<hosts, registry, npExit, npVia, distIdx, client, nmSeen,
                   acks, doneMsg, hubState, npSub, npq, epc, eres, emSub,
                   emDone, child, ccode, fh, fhHost, fhTarget, errNet, logNet,
                   logsOut>>
    /\ UNCHANGED lockVars

\* new_process, distribute failed: remove P from the registry and return.
NPDistFailedClean ==
    /\ npc = "dist_clean"
    /\ registry' = [registry EXCEPT ![CallerDaemon] = "absent"]
    /\ npc' = "returned"
    /\ UNCHANGED <<hosts, npExit, npVia, distIdx, client, nmSeen, acks,
                   doneMsg, hubState, npSub, npq, epc, eres, emSub, emDone,
                   child, ccode, fh, fhHost, fhTarget, errNet, logNet,
                   logsOut>>
    /\ UNCHANGED lockVars

\* new_process step 2: set_process_datas(P, process_datas).
NPSetDatas ==
    /\ npc = "set_datas"
    /\ registry' = [registry EXCEPT ![CallerDaemon] = "full"]
    /\ npc' = "subscribe"
    /\ UNCHANGED <<hosts, npExit, npVia, distIdx, client, nmSeen, acks,
                   doneMsg, hubState, npSub, npq, epc, eres, emSub, emDone,
                   child, ccode, fh, fhHost, fhTarget, errNet, logNet,
                   logsOut>>
    /\ UNCHANGED lockVars

\* A wrong step 3: the loop is entered and the make future polled before
\* the handler has subscribed to the channel of P.
NPSubscribeLate ==
    /\ npc = "subscribe"
    /\ epc' = [epc EXCEPT ![LocalMake] = "read"]
    /\ npc' = "loop"
    /\ UNCHANGED <<hosts, registry, npExit, npVia, distIdx, client, nmSeen,
                   acks, doneMsg, hubState, npSub, npq, eres, emSub, emDone,
                   child, ccode, fh, fhHost, fhTarget, errNet, logNet,
                   logsOut>>
    /\ UNCHANGED lockVars

\* new_process step 3: lock the hub and subscribe to the channel of P, which
\* creates the channel; then build the execute_make future and enter the loop.
NPSubscribe ==
    /\ npc = "subscribe"
    /\ hubState' = [hubState EXCEPT ![CallerDaemon] = "running"]
    /\ npSub' = TRUE
    /\ epc' = [epc EXCEPT ![LocalMake] = "read"]
    /\ npc' = "loop"
    /\ UNCHANGED <<hosts, registry, npExit, npVia, distIdx, client, nmSeen,
                   acks, doneMsg, npq, eres, emSub, emDone, child, ccode, fh,
                   fhHost, fhTarget, errNet, logNet, logsOut>>
    /\ UNCHANGED lockVars

\* new_process step 3: the lock of the hub times out: the handler returns.
NPSubscribeTimeout ==
    /\ npc = "subscribe"
    /\ npc' = "returned"
    /\ UNCHANGED <<hosts, registry, npExit, npVia, distIdx, client, nmSeen,
                   acks, doneMsg, hubState, npSub, npq, epc, eres, emSub,
                   emDone, child, ccode, fh, fhHost, fhTarget, errNet, logNet,
                   logsOut>>
    /\ UNCHANGED lockVars

(***************************************************************************)
(* execute_make: e is the local make of new_process (no target) or the     *)
(* make of fetch handler e (target fhTarget[e]); the handler of fetch e    *)
(* calls lock_target / unlock_target as handler e of the lock part.        *)
(***************************************************************************)
ExecDaemon(e) == IF e = LocalMake THEN CallerDaemon ELSE fhHost[e]

\* The future of e makes progress only while its owner awaits it: the
\* select! loop of new_process, or handle_fetch awaiting execute_make.
Polled(e) == IF e = LocalMake THEN npc = "loop" ELSE fh[e] = "exec"

\* execute_make returns early with the target lock held, if it took one.
EarlyReturn(e) ==
    IF e \in Fetches THEN ReturnHoldingLock(e) ELSE UNCHANGED lockVars

\* lock_target is running: its steps are those of the lock part.
EMLockTurn(e) ==
    /\ e \in Fetches /\ epc[e] = "lock" /\ Polled(e)
    /\ UNCHANGED buildVars

\* lock_target returned the hub-mutex timeout: execute_make returns it.
EMLockTimeout(e) ==
    /\ e \in Fetches /\ epc[e] = "lock" /\ Polled(e)
    /\ LockSubscribeTimeout(e)
    /\ epc' = [epc EXCEPT ![e] = "done"]
    /\ eres' = [eres EXCEPT ![e] = "err"]
    /\ UNCHANGED <<hosts, registry, npc, npExit, npVia, distIdx, client,
                   nmSeen, acks, doneMsg, hubState, npSub, npq, emSub, emDone,
                   child, ccode, fh, fhHost, fhTarget, errNet, logNet,
                   logsOut>>

\* lock_target returned Ok (or there is no target).  Read the makefile
\* (readable or not), then the process data of P: both failures are
\* returned with `?`.
EMReadData(e, readable) ==
    /\ Polled(e)
    /\ IF e \in Fetches THEN epc[e] = "lock" /\ hpc[e] = "holding"
                        ELSE epc[e] = "read"
    /\ IF readable /\ registry[ExecDaemon(e)] # "absent"
       THEN /\ epc' = [epc EXCEPT ![e] = "spawn"]
            /\ UNCHANGED eres
            /\ UNCHANGED lockVars
       ELSE /\ epc' = [epc EXCEPT ![e] = "done"]
            /\ eres' = [eres EXCEPT ![e] = "err"]
            /\ EarlyReturn(e)
    /\ UNCHANGED <<hosts, registry, npc, npExit, npVia, distIdx, client,
                   nmSeen, acks, doneMsg, hubState, npSub, npq, emSub, emDone,
                   child, ccode, fh, fhHost, fhTarget, errNet, logNet,
                   logsOut>>

\* Spawn the make child (the log forwarders are attached to its pipes).
EMSpawn(e, spawned) ==
    /\ epc[e] = "spawn" /\ Polled(e)
    /\ IF spawned
       THEN /\ child' = [child EXCEPT ![e] = "running"]
            /\ epc' = [epc EXCEPT ![e] = "subscribe"]
            /\ UNCHANGED eres
            /\ UNCHANGED lockVars
       ELSE /\ epc' = [epc EXCEPT ![e] = "done"]
            /\ eres' = [eres EXCEPT ![e] = "err"]
            /\ UNCHANGED child
            /\ EarlyReturn(e)
    /\ UNCHANGED <<hosts, registry, npc, npExit, npVia, distIdx, client,
                   nmSeen, acks, doneMsg, hubState, npSub, npq, emSub, emDone,
                   ccode, fh, fhHost, fhTarget, errNet, logNet, logsOut>>

\* Subscribe to the channel of P; if the hub mutex times out there is no
\* subscriber and execute_make only waits for the child.
EMSubscribe(e, locked) ==
    /\ epc[e] = "subscribe" /\ Polled(e)
    /\ IF locked
       THEN /\ hubState' = [hubState EXCEPT ![ExecDaemon(e)] = "running"]
            /\ emSub' = [emSub EXCEPT ![e] = TRUE]
       ELSE UNCHANGED <<hubState, emSub>>
    /\ epc' = [epc EXCEPT ![e] = "wait"]
    /\ UNCHANGED <<hosts, registry, npc, npExit, npVia, distIdx, client,
                   nmSeen, acks, doneMsg, npSub, npq, eres, emDone, child,
                   ccode, fh, fhHost, fhTarget, errNet, logNet, logsOut>>
    /\ UNCHANGED lockVars

\* process.wait() returns the exit status; the forwarders are joined.  With
\* no target execute_make returns Ok(Some(status)); with a target it calls
\* unlock_target, whose first block removes the pair from the lock set.
EMChildExited(e) ==
    /\ epc[e] = "wait" /\ Polled(e)
    /\ child[e] = "exited"
    /\ IF e \in Fetches
       THEN /\ UnlockRemove(e)
            /\ epc' = [epc EXCEPT ![e] = "unlock"]
            /\ UNCHANGED <<eres, emSub>>
       ELSE /\ epc' = [epc EXCEPT ![e] = "done"]
            /\ eres' = [eres EXCEPT ![e] = "status"]
            /\ emSub' = [emSub EXCEPT ![e] = FALSE]
            /\ UNCHANGED lockVars
    /\ UNCHANGED <<hosts, registry, npc, npExit, npVia, distIdx, client,
                   nmSeen, acks, doneMsg, hubState, npSub, npq, emDone, child,
                   ccode, fh, fhHost, fhTarget, errNet, logNet, logsOut>>

\* The subscriber yields Notif::Done: kill the child, return Ok(None).
EMDone(e) ==
    /\ epc[e] = "wait" /\ Polled(e)
    /\ emSub[e] /\ emDone[e]
    /\ child' = [child EXCEPT ![e] = IF @ = "running" THEN "killed" ELSE @]
    /\ epc' = [epc EXCEPT ![e] = "done"]
    /\ eres' = [eres EXCEPT ![e] = "aborted"]
    /\ emSub' = [emSub EXCEPT ![e] = FALSE]
    /\ EarlyReturn(e)
    /\ UNCHANGED <<hosts, registry, npc, npExit, npVia, distIdx, client,
                   nmSeen, acks, doneMsg, hubState, npSub, npq, emDone, ccode,
                   fh, fhHost, fhTarget, errNet, logNet, logsOut>>

\* unlock_target: its second block; its error is returned with `?`,
\* otherwise execute_make returns Ok(Some(status)).
EMUnlockSend(e, locked) ==
    /\ e \in Fetches /\ epc[e] = "unlock" /\ Polled(e)
    /\ IF locked THEN UnlockSend(e) ELSE UnlockSendTimeout(e)
    /\ epc' = [epc EXCEPT ![e] = "done"]
    /\ eres' = [eres EXCEPT ![e] = IF locked /\ chan0 THEN "status" ELSE "err"]
    /\ emSub' = [emSub EXCEPT ![e] = FALSE]
    /\ UNCHANGED <<hosts, registry, npc, npExit, npVia, distIdx, client,
                   nmSeen, acks, doneMsg, hubState, npSub, npq, emDone, child,
                   ccode, fh, fhHost, fhTarget, errNet, logNet, logsOut>>

(***************************************************************************)
(* The make children                                                       *)
(***************************************************************************)
\* A running child exits with some status.
ChildExit(e, st) ==
    /\ child[e] = "running"
    /\ child' = [child EXCEPT ![e] = "exited"]
    /\ ccode' = [ccode EXCEPT ![e] = st]
    /\ UNCHANGED <<hosts, registry, npc, npExit, npVia, distIdx, client,
                   nmSeen, acks, doneMsg, hubState, npSub, npq, epc, eres,
                   emSub, emDone, fh, fhHost, fhTarget, errNet, logNet,
                   logsOut>>
    /\ UNCHANGED lockVars

\* A running child writes a chunk: its forwarder sends it to the caller's
\* daemon as a StdoutLog / StderrLog message.  logsOut counts the log
\* messages sent during the build, MaxLogs at most.
ChildLog(e) ==
    /\ child[e] = "running"
    /\ logsOut < MaxLogs
    /\ logsOut' = logsOut + 1
    /\ logNet' = logNet + 1
    /\ UNCHANGED <<hosts, registry, npc, npExit, npVia, distIdx, client,
                   nmSeen, acks, doneMsg, hubState, npSub, npq, epc, eres,
                   emSub, emDone, child, ccode, fh, fhHost, fhTarget, errNet>>
    /\ UNCHANGED lockVars

\* A fetch stub of the build runs: `dake fetch` sends Fetch for the target to
\* the daemon d of its label.  The stubs run under the local make child, one
\* at a time: the stub before has got its answer (Object chunks or Failed).
\* The fetches of the build ask for the same target, FetchedTarget.
ChildFetch(f, d) ==
    /\ child[LocalMake] = "running"
    /\ fh[f] = "none"
    /\ \A g \in Fetches : g < f => fh[g] \in {"streamed", "failed", "failed_quiet"}
    /\ d \in HostSet
    /\ fh' = [fh EXCEPT ![f] = "sent"]
    /\ fhHost' = [fhHost EXCEPT ![f] = d]
    /\ fhTarget' = [fhTarget EXCEPT ![f] = FetchedTarget]
    /\ UNCHANGED <<hosts, registry, npc, npExit, npVia, distIdx, client,
                   nmSeen, acks, doneMsg, hubState, npSub, npq, epc, eres,
                   emSub, emDone, child, ccode, errNet, logNet, logsOut>>
    /\ UNCHANGED lockVars

(***************************************************************************)
(* handle_log, handle_error (on the caller's daemon)                       *)
(***************************************************************************)
\* The dispatcher admits a log message; handle_log publishes Notif::Log on
\* the channel of P (arc_send fails if the channel does not exist).
handle_log ==
    /\ logNet > 0
    /\ process_is_registered(CallerDaemon)
    /\ logNet' = logNet - 1
    /\ IF hubState[CallerDaemon] = "running"
       THEN HubPublish(CallerDaemon, [kind |-> "Log", code |-> NoCode])
       ELSE UNCHANGED <<npq, emDone>>
    /\ UNCHANGED <<hosts, registry, npc, npExit, npVia, distIdx, client,
                   nmSeen, acks, doneMsg, hubState, npSub, epc, eres, emSub,
                   child, ccode, fh, fhHost, fhTarget, errNet, logsOut>>
    /\ UNCHANGED lockVars

\* The dispatcher skips a log message: P is not registered any more.
DropLog ==
    /\ logNet > 0
    /\ ~process_is_registered(CallerDaemon)
    /\ logNet' = logNet - 1
    /\ UNCHANGED <<hosts, registry, npc, npExit, npVia, distIdx, client,
                   nmSeen, acks, doneMsg, hubState, npSub, npq, epc, eres,
                   emSub, emDone, child, ccode, fh, fhHost, fhTarget, errNet,
                   logsOut>>
    /\ UNCHANGED lockVars

\* The dispatcher admits MakeError{exit_code}; handle_error publishes
\* Notif::Error unless the hub mutex times out or the channel does not exist.
handle_error(m, locked) ==
    /\ m \in errNet
    /\ process_is_registered(CallerDaemon)
    /\ errNet' = errNet \ {m}
    /\ IF locked /\ hubState[CallerDaemon] = "running"
       THEN HubPublish(CallerDaemon, [kind |-> "Error", code |-> m.code])
       ELSE UNCHANGED <<npq, emDone>>
    /\ UNCHANGED <<hosts, registry, npc, npExit, npVia, distIdx, client,
                   nmSeen, acks, doneMsg, hubState, npSub, epc, eres, emSub,
                   child, ccode, fh, fhHost, fhTarget, logNet, logsOut>>
    /\ UNCHANGED lockVars

\* The dispatcher skips a MakeError: P is not registered any more.
DropError(m) ==
    /\ m \in errNet
    /\ ~process_is_registered(CallerDaemon)
    /\ errNet' = errNet \ {m}
    /\ UNCHANGED <<hosts, registry, npc, npExit, npVia, distIdx, client,
                   nmSeen, acks, doneMsg, hubState, npSub, npq, epc, eres,
                   emSub, emDone, child, ccode, fh, fhHost, fhTarget, logNet,
                   logsOut>>
    /\ UNCHANGED lockVars

(***************************************************************************)
(* new_process: the select! loop and the End message                       *)
(***************************************************************************)
\* A make branch that takes a missing exit code for a success.
MakeBranchCodeZero(res, code) ==
    IF res = "status" /\ code # NoCode THEN code ELSE 0

\* The exit code of the `make` branch: status.code().unwrap_or(1) for
\* Ok(Some(status)), 1 for Ok(None) and for Err.
MakeBranchCode(res, code) ==
    IF res = "status" /\ code # NoCode THEN code ELSE 1

\* Step 4: write End{exit_code} and return; the subscriber and the
\* execute_make future are dropped (the child is not kill_on_drop).
WriteEnd(exit_code) ==
    /\ client' = Append(client, [kind |-> "End", code |-> exit_code])
    /\ npSub' = FALSE
    /\ emSub' = [emSub EXCEPT ![LocalMake] = FALSE]
    /\ npc' = "returned"

\* select!: the execute_make future completed: break with its exit code.
NPMakeDone ==
    /\ npc = "loop"
    /\ eres[LocalMake] # "none"
    /\ npExit' = MakeBranchCode(eres[LocalMake], ccode[LocalMake])
    /\ npVia' = "make"
    /\ WriteEnd(npExit')
    /\ UNCHANGED <<hosts, registry, distIdx, nmSeen, acks, doneMsg, hubState,
                   npq, epc, eres, emDone, child, ccode, fh, fhHost, fhTarget,
                   errNet, logNet, logsOut>>
    /\ UNCHANGED lockVars

\* A wrong loop: keeps forwarding logs after the handler has written End.
NPRecvLogAfterEnd ==
    /\ npc \in {"loop", "returned"}
    /\ npq # << >>
    /\ Head(npq).kind = "Log"
    /\ client' = Append(client, Head(npq))
    /\ npq' = Tail(npq)
    /\ UNCHANGED <<hosts, registry, npc, npExit, npVia, distIdx, nmSeen, acks,
                   doneMsg, hubState, npSub, epc, eres, emSub, emDone, child,
                   ccode, fh, fhHost, fhTarget, errNet, logNet, logsOut>>
    /\ UNCHANGED lockVars

\* select!: the subscriber yields Notif::Log: write it on the client stream.
NPRecvLog ==
    /\ npc = "loop"
    /\ npq # << >>
    /\ Head(npq).kind = "Log"
    /\ client' = Append(client, Head(npq))
    /\ npq' = Tail(npq)
    /\ UNCHANGED <<hosts, registry, npc, npExit, npVia, distIdx, nmSeen, acks,
                   doneMsg, hubState, npSub, epc, eres, emSub, emDone, child,
                   ccode, fh, fhHost, fhTarget, errNet, logNet, logsOut>>
    /\ UNCHANGED lockVars

\* A wrong Error branch: writes End before it broadcasts Done.
NPRecvErrorEndFirst ==
    /\ npc = "loop"
    /\ npq # << >>
    /\ Head(npq).kind = "Error"
    /\ npExit' = Head(npq).code
    /\ npVia' = "error"
    /\ npq' = Tail(npq)
    /\ client' = Append(client, [kind |-> "End", code |-> Head(npq).code])
    /\ doneMsg' = [d \in Daemons |->
                     IF registry[CallerDaemon] = "full" /\ d \in HostSet
                     THEN "sent" ELSE doneMsg[d]]
    /\ npc' = "bcast_wait"
    /\ UNCHANGED <<hosts, registry, distIdx, nmSeen, acks, hubState, npSub,
                   epc, eres, emSub, emDone, child, ccode, fh, fhHost,
                   fhTarget, errNet, logNet, logsOut>>
    /\ UNCHANGED lockVars

\* select!: the subscriber yields Notif::Error{exit_code}: call
\* broadcast_done, which reads the involved hosts of P (error if P is not
\* registered: new_process only warns) and sends Done to each of them.
NPRecvError ==
    /\ npc = "loop"
    /\ npq # << >>
    /\ Head(npq).kind = "Error"
    /\ npExit' = Head(npq).code
    /\ npVia' = "error"
    /\ npq' = Tail(npq)
    /\ doneMsg' = [d \in Daemons |->
                     IF registry[CallerDaemon] = "full" /\ d \in HostSet
                     THEN "sent" ELSE doneMsg[d]]
    /\ npc' = "bcast_wait"
    /\ UNCHANGED <<hosts, registry, distIdx, client, nmSeen, acks, hubState,
                   npSub, epc, eres, emSub, emDone, child, ccode, fh, fhHost,
                   fhTarget, errNet, logNet, logsOut>>
    /\ UNCHANGED lockVars

\* broadcast_done, wait_acks: every involved host has acknowledged Done;
\* new_process breaks with the exit code of the Error.
BroadcastAcked ==
    /\ npc = "bcast_wait"
    /\ \A d \in Daemons : doneMsg[d] \in {"none", "acked"}
    /\ WriteEnd(npExit)
    /\ UNCHANGED <<hosts, registry, npExit, npVia, distIdx, nmSeen, acks,
                   doneMsg, hubState, npq, epc, eres, emDone, child, ccode,
                   fh, fhHost, fhTarget, errNet, logNet, logsOut>>
    /\ UNCHANGED lockVars

\* broadcast_done, wait_acks: the timeout fires while an ack is missing;
\* new_process only warns about the error and breaks with the exit code.
BroadcastTimeout ==
    /\ npc = "bcast_wait"
    /\ \E d \in Daemons : doneMsg[d] \notin {"none", "acked"}
    /\ WriteEnd(npExit)
    /\ UNCHANGED <<hosts, registry, npExit, npVia, distIdx, nmSeen, acks,
                   doneMsg, hubState, npq, epc, eres, emDone, child, ccode,
                   fh, fhHost, fhTarget, errNet, logNet, logsOut>>
    /\ UNCHANGED lockVars

(***************************************************************************)
(* handle_done (on daemon d)                                               *)
(***************************************************************************)
\* A handle_done that acknowledges without removing P.
DoneRemoveKeep(d) ==
    /\ doneMsg[d] = "sent"
    /\ process_is_registered(d)
    /\ doneMsg' = [doneMsg EXCEPT ![d] = "removed"]
    /\ UNCHANGED <<hosts, registry, npc, npExit, npVia, distIdx, client,
                   nmSeen, acks, hubState, npSub, npq, epc, eres, emSub,
                   emDone, child, ccode, fh, fhHost, fhTarget, errNet, logNet,
                   logsOut>>
    /\ UNCHANGED lockVars

\* The dispatcher of d admits Done (P is registered on d); handle_done
\* removes P from the registry.
DoneRemove(d) ==
    /\ doneMsg[d] = "sent"
    /\ process_is_registered(d)
    /\ registry' = [registry EXCEPT ![d] = "absent"]
    /\ doneMsg' = [doneMsg EXCEPT ![d] = "removed"]
    /\ UNCHANGED <<hosts, npc, npExit, npVia, distIdx, client, nmSeen, acks,
                   hubState, npSub, npq, epc, eres, emSub, emDone, child,
                   ccode, fh, fhHost, fhTarget, errNet, logNet, logsOut>>
    /\ UNCHANGED lockVars

\* handle_done: if the hub is locked in time and the channel of P is
\* Running, publish Notif::Done; wait for the publication; send Ack Ok.
DonePublishAck(d, locked) ==
    /\ doneMsg[d] = "removed"
    /\ IF locked /\ hubState[d] = "running"
       THEN HubPublish(d, [kind |-> "Done", code |-> NoCode])
       ELSE UNCHANGED <<npq, emDone>>
    /\ doneMsg' = [doneMsg EXCEPT ![d] = "acked"]
    /\ UNCHANGED <<hosts, registry, npc, npExit, npVia, distIdx, client,
                   nmSeen, acks, hubState, npSub, epc, eres, emSub, child,
                   ccode, fh, fhHost, fhTarget, errNet, logNet, logsOut>>
    /\ UNCHANGED lockVars

(***************************************************************************)
(* handle_fetch (on daemon fhHost[f])                                      *)
(***************************************************************************)
\* forward_error: Failed to the fetcher, then StderrLog and
\* MakeError{exit_code: 1} to the caller's daemon, each on a new connection.
\* The result is the MakeError; the StderrLog is counted in logNet by
\* FetchMakeResult (its send fails once MaxLogs messages have been sent:
\* the handler then ends in "failed_quiet" instead of "failed").
forward_error(f) == {[f |-> f, code |-> 1, from |-> "forward_error"]}

\* The dispatcher skips Fetch: P is not registered on the daemon.
DropFetch(f) ==
    /\ fh[f] = "sent"
    /\ ~process_is_registered(fhHost[f])
    /\ fh' = [fh EXCEPT ![f] = "dropped"]
    /\ UNCHANGED <<hosts, registry, npc, npExit, npVia, distIdx, client,
                   nmSeen, acks, doneMsg, hubState, npSub, npq, epc, eres,
                   emSub, emDone, child, ccode, fhHost, fhTarget, errNet,
                   logNet, logsOut>>
    /\ UNCHANGED lockVars

\* The dispatcher admits Fetch; handle_fetch reads the process data,
\* resolves the path, reads the args and calls execute_make with the target,
\* which calls lock_target.
FetchAdmit(f) ==
    /\ fh[f] = "sent"
    /\ process_is_registered(fhHost[f])
    /\ fh' = [fh EXCEPT ![f] = "exec"]
    /\ epc' = [epc EXCEPT ![f] = "lock"]
    /\ CallLockTarget(f, fhTarget[f])
    /\ UNCHANGED <<hosts, registry, npc, npExit, npVia, distIdx, client,
                   nmSeen, acks, doneMsg, hubState, npSub, npq, eres, emSub,
                   emDone, child, ccode, fhHost, fhTarget, errNet, logNet,
                   logsOut>>

\* handle_fetch steps 3 to 5, on the result of execute_make.
\*   Ok(Some(status)): exit_code = status.code().unwrap_or(0); if the status
\*     is not a success send MakeError{exit_code}.  In both cases go on to
\*     step 4: if the target path is a file stream it to the fetcher,
\*     otherwise forward_error.
\*   Ok(None): return.   Err: forward_error and return.
FetchMakeResult(f, is_file) ==
    /\ fh[f] = "exec"
    /\ eres[f] # "none"
    /\ LET sent == IF eres[f] = "status" /\ ccode[f] # 0
                   THEN {[f |-> f,
                          code |-> IF ccode[f] = NoCode THEN 0 ELSE ccode[f],
                          from |-> "status"]}
                   ELSE {}
           failed == eres[f] = "err" \/ (eres[f] = "status" /\ ~is_file)
       IN  /\ errNet' = errNet \cup sent \cup
                         (IF failed THEN forward_error(f) ELSE {})
           /\ logNet' = IF failed /\ logsOut < MaxLogs THEN logNet + 1 ELSE logNet
           /\ logsOut' = IF failed /\ logsOut < MaxLogs THEN logsOut + 1 ELSE logsOut
           /\ fh' = [fh EXCEPT ![f] = IF eres[f] = "aborted" THEN "aborted"
                                      ELSE IF failed /\ logsOut < MaxLogs THEN "failed"
                                      ELSE IF failed THEN "failed_quiet"
                                      ELSE "streamed"]
    /\ (eres[f] # "status" => is_file)
    /\ UNCHANGED <<hosts, registry, npc, npExit, npVia, distIdx, client,
                   nmSeen, acks, doneMsg, hubState, npSub, npq, epc, eres,
                   emSub, emDone, child, ccode, fhHost, fhTarget>>
    /\ UNCHANGED lockVars

\* The daemon is long-lived: when the build starts no handler is in
\* lock_target or unlock_target and no target of the project is locked, but
\* the process-less channel of the project exists if a handler of an earlier
\* build of the project ever had to wait for a target (LockSubscribe).
InitBuild ==
    /\ target_locks = {}
    /\ chan0 \in BOOLEAN
    /\ subq = [h \in Handlers |-> << >>]
    /\ subscribed = {}
    /\ hpc = [h \in Handlers |-> "idle"]
    /\ htgt = [h \in Handlers |-> NoTarget]
    /\ unlockRes = [h \in Handlers |-> "none"]
    /\ InitFreshVars /\ InitAckVars /\ InitBuildVars /\ InitOthers

BuildFrame == UNCHANGED <<freshVars, ackVars, streamVars, dispatchVars,
                        extraVars>>

NextBuild ==
    \/ \E hs \in HostLists : NPReceive(hs) /\ BuildFrame
    \/ \E ok \in BOOLEAN : Distribute(ok) /\ BuildFrame
    \/ \E d \in Daemons : DropNewMakefile(d) /\ BuildFrame
    \/ \E d \in Daemons, pushed \in BOOLEAN : receiv_makefile(d, pushed) /\ BuildFrame
    \/ DistributeAcks /\ BuildFrame
    \/ DistributeTimeout /\ BuildFrame
    \/ NPDistFailedReport /\ BuildFrame
    \/ NPDistFailedClean /\ BuildFrame
    \/ NPSetDatas /\ BuildFrame
    \/ NPSubscribe /\ BuildFrame
    \/ NPSubscribeTimeout /\ BuildFrame
    \/ \E e \in Execs : EMLockTurn(e) /\ LockInsert(e) /\ BuildFrame
    \/ \E e \in Execs : EMLockTurn(e) /\ LockSubscribe(e) /\ BuildFrame
    \/ \E e \in Execs : EMLockTimeout(e) /\ BuildFrame
    \/ \E e \in Execs, readable \in BOOLEAN : EMReadData(e, readable) /\ BuildFrame
    \/ \E e \in Execs, spawned \in BOOLEAN : EMSpawn(e, spawned) /\ BuildFrame
    \/ \E e \in Execs, locked \in BOOLEAN : EMSubscribe(e, locked) /\ BuildFrame
    \/ \E e \in Execs : EMChildExited(e) /\ BuildFrame
    \/ \E e \in Execs : EMDone(e) /\ BuildFrame
    \/ \E e \in Execs, locked \in BOOLEAN : EMUnlockSend(e, locked) /\ BuildFrame
    \/ \E e \in Execs, st \in ExitStatuses : ChildExit(e, st) /\ BuildFrame
    \/ \E e \in Execs : ChildLog(e) /\ BuildFrame
    \/ \E f \in Fetches, d \in Daemons : ChildFetch(f, d) /\ BuildFrame
    \/ handle_log /\ BuildFrame
    \/ DropLog /\ BuildFrame
    \/ \E m \in errNet, locked \in BOOLEAN : handle_error(m, locked) /\ BuildFrame
    \/ \E m \in errNet : DropError(m) /\ BuildFrame
    \/ NPMakeDone /\ BuildFrame
    \/ NPRecvLog /\ BuildFrame
    \/ NPRecvError /\ BuildFrame
    \/ BroadcastAcked /\ BuildFrame
    \/ BroadcastTimeout /\ BuildFrame
    \/ \E d \in Daemons : DoneRemove(d) /\ BuildFrame
    \/ \E d \in Daemons, locked \in BOOLEAN : DonePublishAck(d, locked) /\ BuildFrame
    \/ \E f \in Fetches : DropFetch(f) /\ BuildFrame
    \/ \E f \in Fetches : FetchAdmit(f) /\ BuildFrame
    \/ \E f \in Fetches, is_file \in BOOLEAN : FetchMakeResult(f, is_file) /\ BuildFrame

SpecBuild == InitBuild /\ [][NextBuild]_vars

(***************************************************************************)
(* Claims about the build                                                  *)
(***************************************************************************)
EndCount == Cardinality({i \in 1..Len(client) : client[i].kind = "End"})

\* C4: for every NewProcess handled by the caller daemon exactly one End is
\* written on the client stream, on every path of the handler: once
\* new_process has returned, the client stream holds exactly one End.
C4_ExactlyOneEnd ==
    npc = "returned" => EndCount = 1

\* C5: no ProcessMessage is written on the client stream after the End
\* message: an End on the client stream is its last message.
C5_EndIsLast ==
    \A i \in 1..Len(client) : client[i].kind = "End" => i = Len(client)

\* End has been written while a log message of the build is still on its
\* way to the caller's daemon, where P is still registered: handle_log will
\* publish it after the End.
C5_Witness ==
    /\ npc = "returned"
    /\ EndCount = 1
    /\ logNet > 0
    /\ process_is_registered(CallerDaemon)
    /\ hubState[CallerDaemon] = "running"

\* C6: a NewMakefile for P that arrives at a participant daemon is handled
\* there (P registered, makefile persisted, ack sent): it is never skipped.
C6_NewMakefileHandled ==
    \A d \in Daemons :
        nmSeen[d] \in {"handled", "dropped"}
        => nmSeen[d] = "handled" /\ acks[d] # "none"

\* C8: when the make of a fetched target exits with a non-zero code c, the
\* End the client receives carries c: if the only fetch of the build got the
\* status c # 0 from execute_make and new_process ended the build on an
\* Error notification, the End it wrote carries c.
C8_EndCarriesMakeCode ==
    \A f \in Fetches :
        ( /\ npc = "returned" /\ npVia = "error"
          /\ \A g \in Fetches \ {f} : fh[g] = "none"
          /\ eres[f] = "status"
          /\ ccode[f] \notin {0, NoCode} )
        => client[Len(client)] = [kind |-> "End", code |-> ccode[f]]

\* C9: when new_process ends the build on an Error notification, the local
\* make child is not running any more once End has been written.
C9_LocalChildKilled ==
    (npc = "returned" /\ npVia = "error") => child[LocalMake] # "running"

\* C10: once a daemon has acknowledged Done for P, a make child that an
\* execute_make in progress on that daemon has spawned is not left running:
\* if it still runs, the Done is pending in the queue of its supervisor.
C10_DoneKillsInFlightMake ==
    \A f \in Fetches :
        ( /\ doneMsg[fhHost[f]] = "acked"
          /\ fh[f] = "exec"
          /\ child[f] = "running" )
        => emSub[f] /\ emDone[f]

\* C11: whenever execute_make acquired the target lock (p, t), the pair is
\* no longer in the lock set once execute_make has returned, on every return
\* path: if the target of a returned execute_make is still in the lock set,
\* another execute_make holds it now.
C11_LockReleasedOnReturn ==
    \A f \in Fetches :
        ( /\ epc[f] = "done"
          /\ fhTarget[f] \in target_locks )
        => \E g \in Fetches \ {f} : hpc[g] = "holding" /\ htgt[g] = fhTarget[f]

\* C13: when make for a fetched target exits with a non-zero code, the fetch
\* handler sends exactly one MakeError, carrying that code, to the caller's
\* daemon and then stops: the step of handle_fetch that consumes such a
\* result of execute_make puts that one MakeError in flight and nothing
\* else (no second MakeError, no StderrLog, no Failed, no Object chunk).
C13_OneMakeErrorThenStop ==
    [][ \A f \in Fetches :
          ( /\ fh[f] = "exec" /\ fh'[f] # "exec"
            /\ eres[f] = "status"
            /\ ccode[f] \notin {0, NoCode} )
          => /\ errNet' \ errNet = {[f |-> f, code |-> ccode[f], from |-> "status"]}
             /\ logNet' = logNet
             /\ fh'[f] \notin {"failed", "failed_quiet", "streamed"} ]_vars

\* C14: when the make of a fetched target succeeds but the target path is
\* not a regular file, the client receives the user-readable StderrLog
\* before End{exit_code = 1}, in whatever order the caller's daemon handles
\* the StderrLog and the MakeError of the fetch handler.  The build has one
\* fetch, whose handler sent Failed, the StderrLog and MakeError{1}; the
\* build was ended by an Error notification.
C14_StderrLogBeforeEnd ==
    \A f \in Fetches :
        ( /\ npc = "returned" /\ npVia = "error"
          /\ \A g \in Fetches \ {f} : fh[g] = "none"
          /\ fh[f] = "failed"
          /\ eres[f] = "status" /\ ccode[f] = 0 )
        => /\ \E i \in 1..Len(client) : client[i].kind = "Log"
           /\ client[Len(client)] = [kind |-> "End", code |-> 1]

\* C15: the client never receives End{exit_code = 0} for a build in which
\* some make (the local one, or one run for a fetch) did not succeed, a make
\* terminated by a signal (no exit code) included: when the build is ended
\* by the Error notification of a fetch handler whose make did not succeed,
\* the End written does not carry 0.
C15_NoZeroEndOnFailure ==
    ( /\ npc = "returned" /\ npVia = "error"
      /\ \E f \in Fetches : /\ eres[f] = "status" /\ ccode[f] # 0
                             /\ fh[f] \in {"failed", "failed_quiet", "streamed"} )
    => \A i \in 1..Len(client) :
           client[i].kind = "End" => client[i].code # 0

C18_RegistryCleaned ==
    ( /\ npc = "returned" /\ npVia = "make" /\ npExit = 0
      /\ \A d \in Daemons : doneMsg[d] \in {"none", "acked"} )
    => \A d \in Daemons : registry[d] = "absent"

MaxFileLen == 4
\* Length of the read buffer of the streaming loop: the model's scale for
\* the `vec![0; 8192]` of handle_fetch.
ObjectBufLen == 2

Bytes == {0, 1}
Files == UNION {[1..n -> Bytes] : n \in 0..MaxFileLen}

\* `let mut buf = vec![0; 8192]; reader.read(&mut buf)` returned n at read
\* position pos: the first n bytes of buf are the file's, the others stay 0.
\* The message is built from buf itself: FetcherMessage::Object(buf).
ReadIntoBuf(f, pos, n) ==
    [i \in 1..ObjectBufLen |-> IF i <= n THEN f[pos + i] ELSE 0]

\* What read() returns on a regular file: as much as the buffer takes, less
\* at the end of the file, 0 at EOF.
ReadLen(f, pos) ==
    IF Len(f) - pos < ObjectBufLen THEN Len(f) - pos ELSE ObjectBufLen

\* One turn of the streaming loop: read; n == 0 ends the loop; otherwise
\* write Object(buf) on the stream of the fetcher.
StreamRead ==
    /\ spc = "loop"
    /\ LET n == ReadLen(file, rpos)
       IN  IF n = 0
           THEN /\ spc' = "done"
                /\ UNCHANGED <<objects, rpos>>
           ELSE /\ objects' = Append(objects, ReadIntoBuf(file, rpos, n))
                /\ rpos' = rpos + n
                /\ UNCHANGED spc
    /\ UNCHANGED <<file, received, written>>

\* The read or the write of the turn fails: forward_error and return.
StreamFail ==
    /\ spc = "loop"
    /\ spc' = "failed"
    /\ UNCHANGED <<file, rpos, objects, received, written>>

\* fetch: read the next FetcherMessage::Object(obj) and write_all(obj).
FetchWrite ==
    /\ received < Len(objects)
    /\ written' = written \o objects[received + 1]
    /\ received' = received + 1
    /\ UNCHANGED <<file, rpos, objects, spc>>

InitStream ==
    /\ InitLockVars /\ InitFreshVars /\ InitAckVars /\ InitBuildVars
    /\ InitDispatchVars /\ InitExtra
    /\ file \in Files
    /\ rpos = 0
    /\ objects = << >>
    /\ received = 0
    /\ written = << >>
    /\ spc = "loop"

StreamFrame ==
    UNCHANGED <<lockVars, freshVars, ackVars, buildVars, dispatchVars,
                extraVars>>

NextStream ==
    \/ StreamRead /\ StreamFrame
    \/ StreamFail /\ StreamFrame
    \/ FetchWrite /\ StreamFrame

SpecStream == InitStream /\ [][NextStream]_vars

(***************************************************************************)
(* Claims about the streaming of an artifact                               *)
(***************************************************************************)
RECURSIVE Concat(_)
Concat(chunks) ==
    IF chunks = << >> THEN << >> ELSE Head(chunks) \o Concat(Tail(chunks))

\* C12: for every artifact file, the concatenation of the payloads of the
\* Object messages sent by the fetch handler equals the file's bytes, every
\* chunk is at most one buffer long and the last chunk is as short as the
\* remaining bytes (also for lengths that are no multiple of the buffer, and
\* for the empty file).
C12_ObjectsAreTheFile ==
    spc = "done"
    => /\ Concat(objects) = file
       /\ \A i \in 1..Len(objects) : Len(objects[i]) <= ObjectBufLen
       /\ objects # << >> =>
            Len(objects[Len(objects)]) = Len(file) - (Len(objects) - 1) * ObjectBufLen

(***************************************************************************)
(* SpecDispatch: the per-connection loop of the daemon.  Each connection   *)
(* is read by its own task; a message is decoded, its pid looked up in the *)
(* process registry and the message handed to its handler or skipped.  The *)
(* lookup takes the registry mutex, which is only ever held for one map    *)
(* operation: it is taken to succeed.                                      *)
(***************************************************************************)
PidIds == 0..MaxPid
\* The message kinds whose handlers differ in what they do to the registry.
MessageKinds == {"FreshId", "NewMakefile", "Done", "StdoutLog"}

\* A lookup that forgets the process-less id.
DispatcherAdmitsRegisteredOnly(reg, id) == id \in reg

\* process_is_registered is Ok(true), or Ok(false) with pid.id == 0.
DispatcherAdmits(reg, id) == id \in reg \/ id = 0

\* What the handler of the message does to the registry: FreshId registers
\* the new pid, NewMakefile registers the pid of the message, Done removes
\* it, a log leaves the registry alone.
HandlerRegistry(reg, fresh, id, kind) ==
    CASE kind = "FreshId" -> IF fresh < MaxPid THEN reg \cup {fresh + 1} ELSE reg
      [] kind = "NewMakefile" -> reg \cup {id}
      [] kind = "Done" -> reg \ {id}
      [] OTHER -> reg

\* get_fresh_id: the counter after the handler of the message has run (the
\* model hands out MaxPid ids at most).
HandlerFresh(fresh, kind) ==
    IF kind = "FreshId" /\ fresh < MaxPid THEN fresh + 1 ELSE fresh

\* One turn of the loop on connection c for a message that decodes: hand it
\* to its handler, or `continue` with the next message.
Dispatch(c, id, kind) ==
    /\ dconn[c] = "open"
    /\ LET admitted == DispatcherAdmits(dreg, id)
       IN  /\ dreg' = IF admitted THEN HandlerRegistry(dreg, dfresh, id, kind)
                      ELSE dreg
           /\ dfresh' = IF admitted THEN HandlerFresh(dfresh, kind) ELSE dfresh
           /\ dlast' = [dlast EXCEPT ![c] =
                          [id |-> id, kind |-> kind,
                           outcome |-> IF admitted THEN "handled" ELSE "skipped",
                           seq |-> 1 - dlast[c].seq]]
    /\ UNCHANGED dconn

\* The peer closed the connection, or the bytes read do not decode: `break`,
\* the task of the connection ends.
DispatchBreak(c) ==
    /\ dconn[c] = "open"
    /\ dconn' = [dconn EXCEPT ![c] = "closed"]
    /\ UNCHANGED <<dreg, dfresh, dlast>>

InitDispatch ==
    /\ InitLockVars /\ InitFreshVars /\ InitAckVars /\ InitBuildVars
    /\ InitStreamVars /\ InitDispatchVars /\ InitExtra

DispatchFrame ==
    UNCHANGED <<lockVars, freshVars, ackVars, buildVars, streamVars,
                extraVars>>

NextDispatch ==
    \/ \E c \in Conns, id \in PidIds, kind \in MessageKinds :
           Dispatch(c, id, kind) /\ DispatchFrame
    \/ \E c \in Conns : DispatchBreak(c) /\ DispatchFrame

SpecDispatch == InitDispatch /\ [][NextDispatch]_vars

IoOutcomes == {"ok", "remove_file", "create_dir", "open", "write"}

\* Whether the call that fails under io is made at all for the folder.
IoApplies(entry, io) ==
    CASE io = "remove_file" -> entry = "file"
      [] io = "create_dir" -> entry \in {"absent", "file"}
      [] OTHER -> TRUE

\* push_makefile: the build folder of pid after the call.
push_makefile(disk, pid, text, io) ==
    LET b == get_makefile_path(pid)
        entry == disk[b]
        after == CASE io = "ok" -> text
                   [] io = "remove_file" -> entry
                   [] io = "create_dir" -> "absent"
                   [] io = "open" -> IF entry \in {"absent", "file", "dir"}
                                     THEN "dir" ELSE entry
                   [] OTHER -> "torn"
    IN  [disk EXCEPT ![b] = after]

\* A registration that keeps the datas already registered.
set_process_datas_keep(reg, pid, datas) ==
    IF reg[pid] = "absent" THEN [reg EXCEPT ![pid] = datas] ELSE reg

\* State::register_process as receiv_makefile calls it, with the datas of
\* the message: set_process_datas, HashMap::insert.
set_process_datas(reg, pid, datas) == [reg EXCEPT ![pid] = datas]

\* receiv_makefile as a function of the daemon state: the registry, the
\* disk and the hub after the call, and the ack it replies.
ReceivState(st, pid, text, datas, io) ==
    [reg |-> set_process_datas(st.reg, pid, datas),
     disk |-> push_makefile(st.disk, pid, text, io),
     hub |-> st.hub,
     ack |-> IF io = "ok" THEN "Ok" ELSE "Failure"]

MkState == [reg |-> mreg, disk |-> mdisk, hub |-> mhub, ack |-> "none"]

MkHandled == Len(mreplies)

\* The handler of NewMakefile{makefile, process_datas} for pid.
ReceivMakefile(pid, text, datas, io) ==
    /\ MkHandled < MaxMakefiles
    /\ IoApplies(mdisk[get_makefile_path(pid)], io)
    /\ LET st == ReceivState(MkState, pid, text, datas, io)
       IN  /\ mreg' = st.reg
           /\ mdisk' = st.disk
           /\ mhub' = st.hub
           /\ mreplies' = Append(mreplies, [pid |-> pid, ack |-> st.ack])
    /\ mlast' = [mlast EXCEPT ![pid] = [text |-> text, datas |-> datas,
                                        ok |-> io = "ok"]]
    /\ mcount' = [mcount EXCEPT ![pid] = @ + 1]

\* handle_done for pid: remove_process; the build of pid is over.  The build
\* folder stays on the disk.
MkRemoveProcess(pid) ==
    /\ mreg[pid] # "absent"
    /\ mreg' = [mreg EXCEPT ![pid] = "absent"]
    /\ UNCHANGED <<mdisk, mlast, mcount, mreplies, mhub>>

InitMakefile ==
    /\ InitLockVars /\ InitFreshVars /\ InitAckVars /\ InitBuildVars
    /\ InitStreamVars /\ InitDispatchVars /\ InitExtra

MakefileFrame ==
    UNCHANGED <<lockVars, freshVars, ackVars, buildVars, streamVars,
                dispatchVars, logVars, genVars,
                frameVars, lateVars>>

NextMakefile ==
    \/ \E pid \in MkPids, text \in MkTexts, datas \in MkDatas, io \in IoOutcomes :
           ReceivMakefile(pid, text, datas, io) /\ MakefileFrame
    \/ \E pid \in MkPids : MkRemoveProcess(pid) /\ MakefileFrame

SpecMakefile == InitMakefile /\ [][NextMakefile]_vars

(***************************************************************************)
(* Claims about the persisted makefiles                                    *)
(***************************************************************************)
\* C21: two distinct pids, two ids of one project included, have their
\* makefiles persisted at different paths, so that while the build of a pid
\* is running (the pid is registered) and its makefile was persisted, the
\* Makefile of its build folder is the text of its last NewMakefile.
C21_DistinctPaths ==
    /\ \A p, q \in MkPids : p # q => get_makefile_path(p) # get_makefile_path(q)
    /\ \A p \in MkPids :
           (mreg[p] # "absent" /\ mlast[p].ok)
           => mdisk[get_makefile_path(p)] = mlast[p].text

C23_TimeoutLeavesState ==
    ( /\ npc = "returned" /\ npVia = "none" /\ EndCount = 0 /\ hosts = << >> )
    => /\ registry = [d \in Daemons |-> IF d = CallerDaemon THEN "default"
                                        ELSE "absent"]
       /\ \A d \in Daemons : hubState[d] = "uninit"

LogChildWrite(p) ==
    /\ lchild = "running"
    /\ lwrote[p] < MaxChunks
    /\ lwrote' = [lwrote EXCEPT ![p] = @ + 1]
    /\ lpipe' = [lpipe EXCEPT ![p] = Append(@, [pipe |-> p, n |-> lwrote[p] + 1])]
    /\ UNCHANGED <<lchild, lfwd, lconn, lhubq, lmake, lnpc, lclient>>

\* The make child exits; the write ends of its pipes are closed.
LogChildExit ==
    /\ lchild = "running"
    /\ lchild' = "exited"
    /\ UNCHANGED <<lwrote, lpipe, lfwd, lconn, lhubq, lmake, lnpc, lclient>>

\* The forwarder of p: pipe.read returned n > 0 bytes, write_message on the
\* forwarder's stream.
LogForward(p) ==
    /\ lfwd[p] = "run"
    /\ Len(lpipe[p]) > 0
    /\ lconn' = [lconn EXCEPT ![p] = Append(@, Head(lpipe[p]))]
    /\ lpipe' = [lpipe EXCEPT ![p] = Tail(@)]
    /\ UNCHANGED <<lchild, lwrote, lfwd, lhubq, lmake, lnpc, lclient>>

\* The forwarder of p: pipe.read returned 0 (EOF): the task ends.
LogForwardEof(p) ==
    /\ lfwd[p] = "run"
    /\ lchild = "exited"
    /\ Len(lpipe[p]) = 0
    /\ lfwd' = [lfwd EXCEPT ![p] = "done"]
    /\ UNCHANGED <<lchild, lwrote, lpipe, lconn, lhubq, lmake, lnpc, lclient>>

\* A connection task that hands any message of its stream to a handler.
ConnNextAny(q) == 1..Len(q)

\* The task of a connection reads its stream message by message and awaits
\* the handler of a message before it reads the next: the message handled
\* next is the first one in flight.
ConnNext(q) == IF Len(q) > 0 THEN {1} ELSE {}

\* The sequence q without its i-th element.
RemoveAt(q, i) == SubSeq(q, 1, i - 1) \o SubSeq(q, i + 1, Len(q))

\* handle_log for a message of the forwarder of p: arc_send Notif::Log on the
\* channel of P.  The notification reaches the subscriber of new_process
\* while new_process holds it; published is whether the publication went
\* through (the hub reports an error otherwise, which is only logged).
LogHandle(p, published) ==
    /\ \E i \in ConnNext(lconn[p]) :
          /\ lhubq' = IF published /\ lnpc = "loop"
                      THEN Append(lhubq, lconn[p][i]) ELSE lhubq
          /\ lconn' = [lconn EXCEPT ![p] = RemoveAt(@, i)]
    /\ UNCHANGED <<lchild, lwrote, lpipe, lfwd, lmake, lnpc, lclient>>

\* execute_make: process.wait() returns once the child has exited.
LogMakeWait ==
    /\ lnpc = "loop"
    /\ lmake = "wait"
    /\ lchild = "exited"
    /\ lmake' = "join"
    /\ UNCHANGED <<lchild, lwrote, lpipe, lfwd, lconn, lhubq, lnpc, lclient>>

\* execute_make: the forwarder tasks have been awaited; the future is ready.
LogMakeJoin ==
    /\ lnpc = "loop"
    /\ lmake = "join"
    /\ \A p \in Pipes : lfwd[p] = "done"
    /\ lmake' = "done"
    /\ UNCHANGED <<lchild, lwrote, lpipe, lfwd, lconn, lhubq, lnpc, lclient>>

\* new_process, subscriber branch of select!: Notif::Log is written to the
\* client as a log message (sent: the write succeeded).
LogNPRecv(sent) ==
    /\ lnpc = "loop"
    /\ Len(lhubq) > 0
    /\ lclient' = IF sent
                  THEN Append(lclient, [kind |-> "Log", chunk |-> Head(lhubq)])
                  ELSE lclient
    /\ lhubq' = Tail(lhubq)
    /\ UNCHANGED <<lchild, lwrote, lpipe, lfwd, lconn, lmake, lnpc>>

\* new_process, make branch of select!: break, write End, return.
LogNPMake ==
    /\ lnpc = "loop"
    /\ lmake = "done"
    /\ lclient' = Append(lclient, [kind |-> "End", chunk |-> [pipe |-> "none", n |-> 0]])
    /\ lnpc' = "returned"
    /\ UNCHANGED <<lchild, lwrote, lpipe, lfwd, lconn, lhubq, lmake>>

InitLog ==
    /\ InitLockVars /\ InitFreshVars /\ InitAckVars /\ InitBuildVars
    /\ InitStreamVars /\ InitDispatchVars /\ InitExtra

LogFrame ==
    UNCHANGED <<lockVars, freshVars, ackVars, buildVars, streamVars,
                dispatchVars, mkVars, genVars,
                frameVars, lateVars>>

NextLog ==
    \/ \E p \in Pipes : LogChildWrite(p) /\ LogFrame
    \/ LogChildExit /\ LogFrame
    \/ \E p \in Pipes : LogForward(p) /\ LogFrame
    \/ \E p \in Pipes : LogForwardEof(p) /\ LogFrame
    \/ \E p \in Pipes, published \in BOOLEAN : LogHandle(p, published) /\ LogFrame
    \/ LogMakeWait /\ LogFrame
    \/ LogMakeJoin /\ LogFrame
    \/ \E sent \in BOOLEAN : LogNPRecv(sent) /\ LogFrame
    \/ LogNPMake /\ LogFrame

SpecLog == InitLog /\ [][NextLog]_vars

(***************************************************************************)
(* Claims about the logs                                                   *)
(***************************************************************************)
\* The chunks of pipe p written to the client, in the order of the stream.
ClientChunks(p) ==
    SelectSeq(lclient, LAMBDA m : m.kind = "Log" /\ m.chunk.pipe = p)

\* C24: the client receives the chunks of one pipe in the order its
\* forwarder read them: of two chunks of a pipe on the client stream, the
\* one read first comes first.
C24_PipeOrder ==
    \A p \in Pipes :
        LET cs == ClientChunks(p)
        IN  \A i, j \in 1..Len(cs) : i < j => cs[i].chunk.n < cs[j].chunk.n

\* Both chunks of each pipe have reached the client, those of the two pipes
\* interleaved.
C24_Witness ==
    /\ Len(lclient) = 4
    /\ lclient[1].chunk = [pipe |-> "stdout", n |-> 1]
    /\ lclient[2].chunk = [pipe |-> "stderr", n |-> 1]
    /\ lclient[3].chunk = [pipe |-> "stdout", n |-> 2]
    /\ lclient[4].chunk = [pipe |-> "stderr", n |-> 2]

\* C30: every chunk the local make child wrote before it exited is
\* forwarded to the client before End is written: once End is on the client
\* stream, every chunk written to a pipe precedes it there.
C30_LogsBeforeEnd ==
    \A e \in 1..Len(lclient) :
        lclient[e].kind = "End"
        => \A p \in Pipes : \A n \in 1..lwrote[p] :
               \E i \in 1..(e - 1) : lclient[i].chunk = [pipe |-> p, n |-> n]

(***************************************************************************)
(* SpecGenerate: RemoteMakefileSet::generate, one turn of its loop per     *)
(* step.  The text of a makefile is the sequence of the pieces pushed to   *)
(* it: a raw text, a default rule `<target>:<command>` or a fetch stub.  A *)
(* piece remembers the index of the token it was built from.               *)
(***************************************************************************)
TokenSeqs == UNION {[1..n -> Tokens] : n \in 0..MaxTokens}

\* label.unwrap_or_else(|| TargetLabel::new(caller_sock, None))
LabelOf(token) == IF token.label = NoLabel THEN CallerSock ELSE token.label

\* get_fetch_command and the fetch rule built around it: the stub names the
\* target, the socket of the label and the root path registered for its ip.
FetchRule(roots, label, target, k) ==
    [kind |-> "fetch", text |-> target, sock |-> label, path |-> roots[label.ip],
     tok |-> k]

\* format!("{target}:{command}")
DefaultRule(target, k) ==
    [kind |-> "default", text |-> target, sock |-> NoLabel, path |-> "none",
     tok |-> k]

RawPiece(text, k) ==
    [kind |-> "raw", text |-> text, sock |-> NoLabel, path |-> "none", tok |-> k]

\* A makefile for a new host that starts empty.
NewMakefileEmpty(full, sock) == [sock |-> sock, content |-> << >>]

\* RemoteMakefile::new(full_fetch_makefile.clone(), label.sock)
NewMakefile(full, sock) == [sock |-> sock, content |-> full]

\* m.push_content(..) for every makefile: the piece own for the makefile of
\* ip, the piece other for the others.
PushAll(ms, ip, own, other) ==
    [i \in 1..Len(ms) |->
        [ms[i] EXCEPT !.content = Append(@, IF ms[i].sock.ip = ip THEN own
                                            ELSE other)]]

GenToken == gtokens[gpos + 1]

\* Token::RawText: append the text to all makefiles.
GenRawText ==
    /\ gpos < Len(gtokens)
    /\ GenToken.kind = "RawText"
    /\ gmakefiles' = PushAll(gmakefiles, CallerIp, RawPiece(GenToken.text, gpos + 1),
                             RawPiece(GenToken.text, gpos + 1))
    /\ gpos' = gpos + 1
    /\ UNCHANGED <<gtokens, gsaw, gfull, groots>>

\* Token::Target: a new makefile if the ip of the label is new, then the
\* default rule to the makefile of that ip and the fetch rule to the others.
GenTarget ==
    /\ gpos < Len(gtokens)
    /\ GenToken.kind = "Target"
    /\ LET k == gpos + 1
           label == LabelOf(GenToken)
           fresh == label.ip \notin gsaw
           ms == IF fresh THEN Append(gmakefiles, NewMakefile(gfull, label))
                 ELSE gmakefiles
           fetch == FetchRule(groots, label, GenToken.text, k)
           default == DefaultRule(GenToken.text, k)
       IN  /\ gsaw' = gsaw \cup {label.ip}
           /\ gfull' = Append(gfull, fetch)
           /\ gmakefiles' = PushAll(ms, label.ip, default, fetch)
    /\ gpos' = gpos + 1
    /\ UNCHANGED <<gtokens, groots>>

\* Token::Directive(RootDef{ip, path}): root_path_set.insert(ip, path).
GenDirective ==
    /\ gpos < Len(gtokens)
    /\ GenToken.kind = "Directive"
    /\ groots' = [groots EXCEPT ![GenToken.label.ip] = GenToken.text]
    /\ gpos' = gpos + 1
    /\ UNCHANGED <<gtokens, gmakefiles, gsaw, gfull>>

\* generate is called with some tokens: one makefile, for the caller.
InitGenerate ==
    /\ InitLockVars /\ InitFreshVars /\ InitAckVars /\ InitBuildVars
    /\ InitStreamVars /\ InitDispatchVars /\ InitMkVars /\ InitLogVars
    /\ InitFrameVars /\ InitLateVars
    /\ gtokens \in TokenSeqs
    /\ gpos = 0
    /\ gmakefiles = << [sock |-> CallerSock, content |-> << >>] >>
    /\ gsaw = {CallerIp}
    /\ gfull = << >>
    /\ groots = [i \in Ips |-> IF i = CallerIp THEN "caller_dir" ELSE "none"]

GenerateFrame ==
    UNCHANGED <<lockVars, freshVars, ackVars, buildVars, streamVars,
                dispatchVars, mkVars, logVars,
                frameVars, lateVars>>

NextGenerate ==
    \/ GenRawText /\ GenerateFrame
    \/ GenTarget /\ GenerateFrame
    \/ GenDirective /\ GenerateFrame

SpecGenerate == InitGenerate /\ [][NextGenerate]_vars

(***************************************************************************)
(* Claims about generate                                                   *)
(***************************************************************************)
\* The loop has ended: the makefiles are the result of generate.
GenDone == Len(gmakefiles) > 0 /\ gpos = Len(gtokens)

\* The ips of the hosts of the tokens: the caller and the labels.
TokenIps ==
    {CallerIp} \cup {LabelOf(gtokens[k]).ip :
                        k \in {j \in 1..Len(gtokens) : gtokens[j].kind = "Target"}}

\* The positions in the content of makefile m of the pieces built from token k.
PiecesOf(m, k) == {i \in 1..Len(m.content) : m.content[i].tok = k}

\* C25: generate emits exactly one makefile per distinct host (the caller
\* and each labeled host), and every Target token contributes exactly one
\* piece to every makefile: its default rule in the makefile of the host of
\* its label (the caller when unlabeled), its fetch stub in every other
\* makefile, those of hosts first seen later included.
C25_OneRulePerMakefile ==
    GenDone
    => /\ \A i, j \in 1..Len(gmakefiles) :
              i # j => gmakefiles[i].sock.ip # gmakefiles[j].sock.ip
       /\ {gmakefiles[i].sock.ip : i \in 1..Len(gmakefiles)} = TokenIps
       /\ \A k \in 1..Len(gtokens) :
              gtokens[k].kind = "Target"
              => \A i \in 1..Len(gmakefiles) :
                     LET m == gmakefiles[i]
                     IN  /\ Cardinality(PiecesOf(m, k)) = 1
                         /\ \A p \in PiecesOf(m, k) :
                                /\ m.content[p].text = gtokens[k].text
                                /\ m.content[p].kind =
                                       IF m.sock.ip = LabelOf(gtokens[k]).ip
                                       THEN "default" ELSE "fetch"

\* A target of the caller, then a target labeled with a new host: the
\* makefile of that host holds the stub of the first and the default rule of
\* the second.
C25_Witness ==
    /\ GenDone
    /\ Len(gtokens) = 3
    /\ gtokens[1].kind = "Target" /\ gtokens[1].label = NoLabel
    /\ gtokens[2].kind = "Target" /\ gtokens[2].label.ip = "B"
    /\ gtokens[3].kind = "Target" /\ gtokens[3].label.ip = "C"
    /\ Len(gmakefiles) = 3
    /\ gmakefiles[3].sock.ip = "C"
    /\ Len(gmakefiles[3].content) = 3
    /\ gmakefiles[3].content[1].kind = "fetch"
    /\ gmakefiles[3].content[2].kind = "fetch"
    /\ gmakefiles[3].content[3].kind = "default"

\* The raw texts of a content, in order.
RawTextsOf(content) ==
    [i \in 1..Len(SelectSeq(content, LAMBDA c : c.kind = "raw")) |->
        SelectSeq(content, LAMBDA c : c.kind = "raw")[i].text]

\* C26: every RawText token appears verbatim, in token order, in every
\* emitted makefile, the submakefile of a host whose first labeled target
\* comes after the raw text included.
C26_RawTextEverywhere ==
    GenDone
    => \A i \in 1..Len(gmakefiles) :
           RawTextsOf(gmakefiles[i].content)
           = RawTextsOf([k \in 1..Len(gtokens) |->
                           [kind |-> IF gtokens[k].kind = "RawText" THEN "raw"
                                     ELSE "other",
                            text |-> gtokens[k].text]])

(***************************************************************************)
(* SpecFrame: the framing of messages on one stream.  A writer calls       *)
(* write_message; the reader is a loop that calls read_next_message with   *)
(* the kind it expects and stops at the first None or error, as the        *)
(* per-connection loop of the daemon does.  A writer may die while it      *)
(* writes: a prefix of the message is on the stream, which is then closed. *)
(***************************************************************************)
\* u64::to_le_bytes of a length below 2^16.
SizeLeBytes(n) == <<n % 256, (n \div 256) % 256, 0, 0, 0, 0, 0, 0>>

\* u64::from_le_bytes; -1 stands for a size of 2^16 or more, which no
\* stream of the model can deliver.
SizeFromLeBytes(b) ==
    IF \A i \in 3..8 : b[i] = 0 THEN b[1] + 256 * b[2] ELSE -1

\* enc!(header): postcard writes the 9 bytes of MessageHeader::serialize
\* after their length.
EncHeader(size, kind) == <<HeaderSize>> \o SizeLeBytes(size) \o <<kind>>

\* MessageHeader::get_header_length: the length of an encoded header.
get_header_length == Len(EncHeader(0, 0))

\* A wrap whose size field counts the header as well.
wrapWholeLength(msg, kind) == EncHeader(Len(msg) + get_header_length, kind) \o msg

\* MessageHeader::wrap: the encoded header of the payload, then the payload.
wrap(msg, kind) == EncHeader(Len(msg), kind) \o msg

\* dec!(header): the length prefix and the kind byte must be valid.
DecHeader(h) ==
    IF h[1] = HeaderSize /\ h[10] \in MessageKindBytes
    THEN [ok |-> TRUE, size |-> SizeFromLeBytes(SubSeq(h, 2, 9)), kind |-> h[10]]
    ELSE [ok |-> FALSE, size |-> 0, kind |-> 0]

\* write_message: write_all of the wrapped message, flush.
FrameWrite(kind, payload) ==
    /\ ~wclosed
    /\ Len(wsent) < MaxMessages
    /\ wire' = wire \o wrap(payload, kind)
    /\ wsent' = Append(wsent, [kind |-> kind, payload |-> payload,
                               cut |-> Len(wrap(payload, kind))])
    /\ UNCHANGED <<wclosed, rexp, rgot, rconn, rhandled>>

\* The writer dies in write_all after cut bytes: the stream is closed.
FrameWriteTorn(kind, payload, cut) ==
    /\ ~wclosed
    /\ Len(wsent) < MaxMessages
    /\ cut \in 1..(Len(wrap(payload, kind)) - 1)
    /\ wire' = wire \o SubSeq(wrap(payload, kind), 1, cut)
    /\ wsent' = Append(wsent, [kind |-> kind, payload |-> payload, cut |-> cut])
    /\ wclosed' = TRUE
    /\ UNCHANGED <<rexp, rgot, rconn, rhandled>>

\* The writer closes the stream.
FrameClose ==
    /\ ~wclosed
    /\ wclosed' = TRUE
    /\ UNCHANGED <<wire, wsent, rexp, rgot, rconn, rhandled>>

\* A read that returns the payload whatever the kind of the header.
ReadNextMessageAnyKind(bytes, kind) ==
    LET header == DecHeader(SubSeq(bytes, 1, get_header_length))
        after == SubSeq(bytes, get_header_length + 1, Len(bytes))
    IN  IF Len(bytes) < get_header_length
        THEN [res |-> "none", payload |-> << >>, rest |-> << >>]
        ELSE IF ~header.ok \/ header.size < 0 \/ Len(after) < header.size
        THEN [res |-> "err", payload |-> << >>, rest |-> << >>]
        ELSE [res |-> "some", payload |-> SubSeq(after, 1, header.size),
              rest |-> SubSeq(after, header.size + 1, Len(after))]

\* read_next_message on the bytes of the stream: what it returns and what it
\* leaves on the stream.  It is called when the bytes it waits for have
\* arrived or the stream is closed.
ReadNextMessage(bytes, kind) ==
    IF Len(bytes) < get_header_length
    THEN [res |-> "none", payload |-> << >>, rest |-> << >>]
    ELSE LET header == DecHeader(SubSeq(bytes, 1, get_header_length))
             after == SubSeq(bytes, get_header_length + 1, Len(bytes))
         IN  IF ~header.ok
             THEN [res |-> "err", payload |-> << >>, rest |-> after]
             ELSE IF header.size < 0 \/ Len(after) < header.size
             THEN [res |-> "err", payload |-> << >>, rest |-> << >>]
             ELSE IF kind # header.kind
             THEN [res |-> "err", payload |-> << >>,
                   rest |-> SubSeq(after, header.size + 1, Len(after))]
             ELSE [res |-> "some", payload |-> SubSeq(after, 1, header.size),
                   rest |-> SubSeq(after, header.size + 1, Len(after))]

\* Whether the read_exact calls of read_next_message can complete: the
\* header and the payload it announces are on the stream, or the stream is
\* closed.
ReadReady(bytes, closed) ==
    \/ closed
    \/ /\ Len(bytes) >= get_header_length
       /\ LET header == DecHeader(SubSeq(bytes, 1, get_header_length))
          IN  \/ ~header.ok
              \/ /\ header.size >= 0
                 /\ Len(bytes) >= get_header_length + header.size

\* dec!(message): an empty payload is no message.
Decodes(payload) == Len(payload) > 0

\* One turn of the reading loop: read_next_message; None or an error ends
\* the loop; a payload that decodes goes on to the dispatch.
FrameRead ==
    /\ rconn = "open"
    /\ ReadReady(wire, wclosed)
    /\ LET r == ReadNextMessage(wire, rexp)
       IN  /\ rgot' = Append(rgot, [res |-> r.res, payload |-> r.payload])
           /\ wire' = r.rest
           /\ rconn' = IF r.res = "some" /\ Decodes(r.payload) THEN "open"
                       ELSE "closed"
           /\ rhandled' = IF r.res = "some" /\ Decodes(r.payload)
                          THEN rhandled + 1 ELSE rhandled
    /\ UNCHANGED <<wclosed, wsent, rexp>>

InitFrame ==
    /\ InitLockVars /\ InitFreshVars /\ InitAckVars /\ InitBuildVars
    /\ InitStreamVars /\ InitDispatchVars /\ InitMkVars /\ InitLogVars
    /\ InitGenVars /\ InitLateVars
    /\ wire = << >>
    /\ wclosed = FALSE
    /\ wsent = << >>
    /\ rexp \in MessageKindBytes
    /\ rgot = << >>
    /\ rconn = "open"
    /\ rhandled = 0

FrameFrame ==
    UNCHANGED <<lockVars, freshVars, ackVars, buildVars, streamVars,
                dispatchVars, mkVars, logVars, genVars,
                lateVars>>

NextFrame ==
    \/ \E kind \in MessageKindBytes, payload \in Payloads :
           FrameWrite(kind, payload) /\ FrameFrame
    \/ \E kind \in MessageKindBytes, payload \in Payloads,
          cut \in 1..(HeaderSize + 3) :
           FrameWriteTorn(kind, payload, cut) /\ FrameFrame
    \/ FrameClose /\ FrameFrame
    \/ FrameRead /\ FrameFrame

SpecFrame == InitFrame /\ [][NextFrame]_vars

(***************************************************************************)
(* Claims about the framing                                                *)
(***************************************************************************)
\* The i-th message was written whole.
Whole(i) == wsent[i].cut = Len(wrap(wsent[i].payload, wsent[i].kind))

\* C27: for any sequence of messages written with write_message, the
\* successive read_next_message calls with the matching kind return the
\* payloads in the order written, each equal to the serialized message, and
\* end-of-stream once the writer has closed the stream.
C27_FramingRoundTrip ==
    ( \A j \in 1..Len(wsent) : Whole(j) /\ wsent[j].kind = rexp )
    => \A i \in 1..Len(rgot) :
           IF i <= Len(wsent)
           THEN rgot[i] = [res |-> "some", payload |-> wsent[i].payload]
           ELSE /\ rgot[i] = [res |-> "none", payload |-> << >>]
                /\ i = Len(wsent) + 1
                /\ wclosed

\* Two different messages were written and read back in order, and the read
\* after the close returned end-of-stream.
C27_Witness ==
    /\ Len(wsent) = 2
    /\ wsent[1].payload = <<7, 9>> /\ wsent[2].payload = <<9>>
    /\ Len(rgot) = 3
    /\ rgot[1] = [res |-> "some", payload |-> <<7, 9>>]
    /\ rgot[2] = [res |-> "some", payload |-> <<9>>]
    /\ rgot[3].res = "none"
    /\ rconn = "closed"

\* C28: when read_next_message finds a header of another kind than the
\* expected one, or a payload shorter than the announced size, it returns an
\* error; the loop of the connection then stops reading and no handler is
\* dispatched for that message.
C28_FramingErrorClosesConnection ==
    \A i \in 1..Len(rgot) :
        ( /\ i <= Len(wsent)
          /\ \A j \in 1..(i - 1) : Whole(j) /\ wsent[j].kind = rexp
          /\ \/ Whole(i) /\ wsent[i].kind # rexp
             \/ ~Whole(i) /\ wsent[i].cut >= get_header_length )
        => /\ rgot[i].res = "err"
           /\ Len(rgot) = i
           /\ rconn = "closed"
           /\ rhandled = i - 1

\* A message was handled, then a message of another kind than the expected
\* one was read, and a message whose payload was cut short.
C28_Witness ==
    /\ Len(wsent) = 2 /\ Len(rgot) = 2
    /\ Whole(1) /\ wsent[1].kind = rexp
    /\ ~Whole(2) /\ wsent[2].cut > get_header_length
    /\ rgot[2].res = "err"
    /\ rhandled = 1

(***************************************************************************)
(* Further claims about execute_make and the notifier hub                  *)
(***************************************************************************)
\* C31: when the make child of a fetch ran to completion and unlock_target
\* got the mutex of the notifier hub, execute_make returns the exit status
\* of the child (Ok(Some(status))) and the pair is out of the lock set, also
\* when nobody ever subscribed to the process-less channel of the project.
C31_UnlockWithoutSubscriber ==
    [][ \A f \in Fetches :
            EMUnlockSend(f, TRUE)
            => /\ child[f] = "exited"
               /\ fhTarget[f] \notin target_locks'
               /\ eres'[f] = "status" ]_vars

\* C32: every pid carried by a FreshId reply is in the process registry of
\* the daemon when the reply is written (and stays there: nothing of the
\* fresh-id part removes a pid), so the dispatcher admits a NewProcess sent
\* with it afterwards.
C32_FreshIdRegistered ==
    \A r \in Requests :
        (fpc[r] = "done" /\ <<fid[r], fproj[r]>> \in freplies)
        => <<fid[r], fproj[r]>> \in fregistry

C39_EndCodeOfLocalMake ==
    (npc = "returned" /\ npVia = "make")
    => /\ Len(client) > 0
       /\ client[Len(client)].kind = "End"
       /\ LET code == client[Len(client)].code
              res == eres[LocalMake]
          IN  /\ (res = "status" /\ ccode[LocalMake] = 0) => code = 0
              /\ (res = "status" /\ ccode[LocalMake] \notin {0, NoCode})
                 => code = ccode[LocalMake]
              /\ (res = "status" /\ ccode[LocalMake] = NoCode) => code = 1
              /\ res \in {"aborted", "err"} => code = 1
              /\ res \in {"status", "aborted", "err"}

\* The local make child was terminated by a signal and End carries 1.
C39_Witness ==
    /\ npc = "returned" /\ npVia = "make"
    /\ eres[LocalMake] = "status"
    /\ child[LocalMake] = "exited" /\ ccode[LocalMake] = NoCode
    /\ client[Len(client)] = [kind |-> "End", code |-> 1]

(***************************************************************************)
(* SpecConn: the task of a connection.  Its loop reads a message, looks    *)
(* the pid up and awaits the handler of the message inline, so the next    *)
(* read_next_message of the connection comes after the handler returned.   *)
(* Every connection has a task of its own.  The messages of a connection   *)
(* are numbered 1, 2, ... in the order the peer wrote them.                *)
(***************************************************************************)
\* The peer writes its next message on connection c.
ConnPeerWrite(c) ==
    /\ csent[c] < MaxQueued
    /\ csent' = [csent EXCEPT ![c] = @ + 1]
    /\ cinbox' = [cinbox EXCEPT ![c] = Append(@, csent[c] + 1)]
    /\ UNCHANGED <<chand, cev>>

\* A loop that hands every message to a task of its own and reads on.
LoopAtReadSpawning(c) == c \in Conns

\* The loop of c is at read_next_message: it awaits no handler.
LoopAtRead(c) == chand[c] = 0

\* One turn of the loop: read the next message of c; when the lookup of
\* its pid admits it call its handler, otherwise `continue`.
ConnDispatch(c, admitted) ==
    /\ LoopAtRead(c)
    /\ Len(cinbox[c]) > 0
    /\ LET m == Head(cinbox[c])
       IN  /\ cinbox' = [cinbox EXCEPT ![c] = Tail(@)]
           /\ chand' = [chand EXCEPT ![c] = IF admitted THEN m ELSE @]
           /\ cev' = [cev EXCEPT ![c] =
                        Append(@, [kind |-> IF admitted THEN "begin" ELSE "skip",
                                   m |-> m])]
    /\ UNCHANGED csent

\* The handler the loop of c awaits returns: the loop goes back to the read.
ConnHandlerReturn(c) ==
    /\ chand[c] # 0
    /\ cev' = [cev EXCEPT ![c] = Append(@, [kind |-> "end", m |-> chand[c]])]
    /\ chand' = [chand EXCEPT ![c] = 0]
    /\ UNCHANGED <<cinbox, csent>>

InitConn ==
    /\ InitLockVars /\ InitFreshVars /\ InitAckVars /\ InitBuildVars
    /\ InitStreamVars /\ InitDispatchVars /\ InitExtra

ConnFrame ==
    UNCHANGED <<lockVars, freshVars, ackVars, buildVars, streamVars,
                dispatchVars, mkVars, logVars, genVars, frameVars,
                mutexVars, configVars, clientVars, argsVars>>

NextConn ==
    \/ \E c \in Conns : ConnPeerWrite(c) /\ ConnFrame
    \/ \E c \in Conns, admitted \in BOOLEAN : ConnDispatch(c, admitted) /\ ConnFrame
    \/ \E c \in Conns : ConnHandlerReturn(c) /\ ConnFrame

SpecConn == InitConn /\ [][NextConn]_vars

(***************************************************************************)
(* Claims about the task of a connection                                   *)
(***************************************************************************)
\* The messages the loop of c has read (handled or skipped), in order.
ReadOrder(ev) == SelectSeq(ev, LAMBDA e : e.kind # "end")

Mutexes == {"processes", "id_database", "target_locks", "notifier_hub"}

\* The steps of a handler.  Acq: wait for the mutex; timed says whether the
\* wait gives up, and fail is the step the handler goes on with then (0:
\* it returns).  Rel: the guard is dropped.  Wait: an await on something
\* that is not a mutex of State and ends by itself (a publication with a
\* timeout, a write, a child).  Recv: lock_target waits for TargetUnlock.
Acq(m, timed, fail) == [op |-> "acq", m |-> m, timed |-> timed, fail |-> fail]
Rel(m) == [op |-> "rel", m |-> m, timed |-> FALSE, fail |-> 0]
Wait == [op |-> "wait", m |-> "none", timed |-> FALSE, fail |-> 0]
Recv == [op |-> "recv", m |-> "none", timed |-> FALSE, fail |-> 0]

HandlerKinds ==
    {"fresh", "makefile", "log", "error", "done", "unlock", "lock", "new_process"}

\* Handlers that keep the registry locked while they take the hub.
ScriptNested(k) ==
    << Acq("processes", TRUE, 0), Acq("notifier_hub", TRUE, 0),
       Rel("notifier_hub"), Rel("processes") >>

\* The mutex steps of each handler.
\*   fresh:  get_fresh_id, then register_process (a failure only warns)
\*   makefile:  receiv_makefile: register_process
\*   log:  handle_log: notifier_hub().lock().await, held over w.wait
\*   error:  handle_error: lock!(notifier_hub), dropped before w.wait
\*   done:  handle_done: remove_process, then the hub under a select! with
\*          a sleep of 5 s, dropped before w.wait
\*   unlock:  unlock_target: target_locks in a block, then the hub
\*   lock:  lock_target on a locked target: target_locks in a block, the
\*          hub in a block, recv, then the insert again
\*   new_process:  set_process_datas, the hub (subscribe), then in
\*          execute_make read_process_data and the hub (subscribe)
Script(k) ==
    CASE k = "fresh" ->
           << Acq("id_database", TRUE, 0), Rel("id_database"),
              Acq("processes", TRUE, 5), Rel("processes") >>
      [] k = "makefile" ->
           << Acq("processes", TRUE, 3), Rel("processes") >>
      [] k = "log" ->
           << Acq("notifier_hub", FALSE, 0), Wait, Rel("notifier_hub") >>
      [] k = "error" ->
           << Acq("notifier_hub", TRUE, 0), Rel("notifier_hub"), Wait >>
      [] k = "done" ->
           << Acq("processes", TRUE, 3), Rel("processes"),
              Acq("notifier_hub", TRUE, 5), Rel("notifier_hub"), Wait >>
      [] k = "unlock" ->
           << Acq("target_locks", TRUE, 0), Rel("target_locks"),
              Acq("notifier_hub", TRUE, 0), Rel("notifier_hub") >>
      [] k = "lock" ->
           << Acq("target_locks", TRUE, 0), Rel("target_locks"),
              Acq("notifier_hub", TRUE, 0), Rel("notifier_hub"), Recv,
              Acq("target_locks", TRUE, 0), Rel("target_locks") >>
      [] k = "new_process" ->
           << Acq("processes", TRUE, 3), Rel("processes"),
              Acq("notifier_hub", TRUE, 0), Rel("notifier_hub"),
              Acq("processes", TRUE, 0), Rel("processes"),
              Acq("notifier_hub", TRUE, 9), Rel("notifier_hub"), Wait >>

\* Task t runs a handler that has not returned.
Running(t) == tkind[t] # "none" /\ tpc[t] <= Len(Script(tkind[t]))
TaskReturned(t) == tkind[t] # "none" /\ tpc[t] > Len(Script(tkind[t]))
\* The step task t is at.
CurOp(t) == Script(tkind[t])[tpc[t]]
\* Nobody holds a guard of m.
Free(m) == stuck # m /\ \A t \in Tasks : m \notin held[t]

\* The dispatcher calls the handler of a message in task t (the tasks are
\* numbered in the order in which they start).
MxStart(t, k) ==
    /\ tkind[t] = "none"
    /\ \A u \in Tasks : u < t => tkind[u] # "none"
    /\ tkind' = [tkind EXCEPT ![t] = k]
    /\ tpc' = [tpc EXCEPT ![t] = 1]
    /\ UNCHANGED <<held, stuck, unlocked>>

\* The mutex is free: the task gets the guard.
MxAcquire(t) ==
    /\ Running(t) /\ CurOp(t).op = "acq"
    /\ Free(CurOp(t).m)
    /\ held' = [held EXCEPT ![t] = @ \cup {CurOp(t).m}]
    /\ tpc' = [tpc EXCEPT ![t] = @ + 1]
    /\ UNCHANGED <<tkind, stuck, unlocked>>

\* lock!: the sleep of MUTEX_LOCK_TIMEOUT ends before the mutex is free.
\* The handler returns (its guards are dropped) or goes on without the
\* guard.
MxTimeout(t) ==
    /\ Running(t) /\ CurOp(t).op = "acq"
    /\ CurOp(t).timed
    /\ ~Free(CurOp(t).m)
    /\ IF CurOp(t).fail = 0
       THEN /\ tpc' = [tpc EXCEPT ![t] = Len(Script(tkind[t])) + 1]
            /\ held' = [held EXCEPT ![t] = {}]
       ELSE /\ tpc' = [tpc EXCEPT ![t] = CurOp(t).fail]
            /\ UNCHANGED held
    /\ UNCHANGED <<tkind, stuck, unlocked>>

\* The guard goes out of scope.  unlock_target has sent TargetUnlock under
\* the guard of the hub.
MxRelease(t) ==
    /\ Running(t) /\ CurOp(t).op = "rel"
    /\ held' = [held EXCEPT ![t] = @ \ {CurOp(t).m}]
    /\ tpc' = [tpc EXCEPT ![t] = @ + 1]
    /\ unlocked' = (unlocked \/ (tkind[t] = "unlock" /\ CurOp(t).m = "notifier_hub"))
    /\ UNCHANGED <<tkind, stuck>>

\* An await that is not on a mutex of State ends.
MxWait(t) ==
    /\ Running(t) /\ CurOp(t).op = "wait"
    /\ tpc' = [tpc EXCEPT ![t] = @ + 1]
    /\ UNCHANGED <<tkind, held, stuck, unlocked>>

\* lock_target: subscriber.recv() yields the TargetUnlock of the target.
MxRecv(t) ==
    /\ Running(t) /\ CurOp(t).op = "recv"
    /\ unlocked
    /\ tpc' = [tpc EXCEPT ![t] = @ + 1]
    /\ UNCHANGED <<tkind, held, stuck, unlocked>>

\* Some holder of the free mutex m never releases it.
MxStick(m) ==
    /\ stuck = "none"
    /\ Free(m)
    /\ stuck' = m
    /\ UNCHANGED <<tkind, tpc, held, unlocked>>

InitMutex ==
    /\ InitLockVars /\ InitFreshVars /\ InitAckVars /\ InitBuildVars
    /\ InitStreamVars /\ InitDispatchVars /\ InitExtra

MutexFrame ==
    UNCHANGED <<lockVars, freshVars, ackVars, buildVars, streamVars,
                dispatchVars, mkVars, logVars, genVars, frameVars,
                connVars, configVars, clientVars, argsVars>>

NextMutex ==
    \/ \E t \in Tasks, k \in HandlerKinds : MxStart(t, k) /\ MutexFrame
    \/ \E t \in Tasks : MxAcquire(t) /\ MutexFrame
    \/ \E t \in Tasks : MxTimeout(t) /\ MutexFrame
    \/ \E t \in Tasks : MxRelease(t) /\ MutexFrame
    \/ \E t \in Tasks : MxWait(t) /\ MutexFrame
    \/ \E t \in Tasks : MxRecv(t) /\ MutexFrame
    \/ \E m \in Mutexes : MxStick(m) /\ MutexFrame

SpecMutex == InitMutex /\ [][NextMutex]_vars

(***************************************************************************)
(* Claims about the mutexes                                                *)
(***************************************************************************)
\* Task t waits for a mutex.
AtAcquire(t) == Running(t) /\ CurOp(t).op = "acq"
\* Task t waits for a mutex that task u holds.
WaitsFor(t, u) == AtAcquire(t) /\ CurOp(t).m \in held[u]

\* C35: no task waits for a mutex of State while it holds another one,
\* except for target_locks held while waiting for notifier_hub; hence no
\* tasks wait for each other's mutexes in a cycle (with NumTasks tasks a
\* cycle has length NumTasks at most).
C35_NoNestedAcquisition ==
    /\ \A t \in Tasks :
          /\ Cardinality(held[t]) <= 1
          /\ AtAcquire(t)
             => \/ held[t] = {}
                \/ held[t] = {"target_locks"} /\ CurOp(t).m = "notifier_hub"
    /\ \A t \in Tasks : ~WaitsFor(t, t)
    /\ \A t, u \in Tasks : ~(WaitsFor(t, u) /\ WaitsFor(u, t))
    /\ \A t, u, v \in Tasks : ~(WaitsFor(t, u) /\ WaitsFor(u, v) /\ WaitsFor(v, t))

\* Three handlers contend for the hub: handle_log holds it while
\* handle_done, which has dropped the guard of the registry, and
\* unlock_target, which has dropped the guard of the lock set, wait for it.
C35_Witness ==
    \E t, u, v \in Tasks :
        /\ tkind[t] = "log" /\ held[t] = {"notifier_hub"}
        /\ tkind[u] = "done" /\ tpc[u] = 3 /\ held[u] = {}
        /\ tkind[v] = "unlock" /\ tpc[v] = 3 /\ held[v] = {}

\* C36: a handler never waits for a mutex of State for ever: when the
\* mutex a task waits for is never released, the wait of the task gives up
\* (its timeout step can be taken), in every handler.
C36_EveryAcquisitionTimesOut ==
    \A t \in Tasks :
        (AtAcquire(t) /\ CurOp(t).m = stuck) => ENABLED MxTimeout(t)

(***************************************************************************)
(* SpecClient: the client of a build (caller::start) after it has sent     *)
(* NewProcess.  It accepts the connection of the daemon, with a timeout of *)
(* 10 s, and reads ProcessMessages until End.  The daemon's side is free:  *)
(* it connects or returns before it does, writes logs and End, writes a    *)
(* message of another kind or one that does not decode, closes the stream, *)
(* or keeps it open and writes nothing more (its handler waits).           *)
(***************************************************************************)
\* What the daemon may write on the stream.
ClientMessages ==
    [kind : {"End"}, code : {0, 2}]
    \cup [kind : {"Log", "WrongKind", "Undecodable"}, code : {NoCode}]

\* main: a Result::Err of caller::make ends the process with exit code 1.
MainErrCode == 1

EndWritten == \E i \in 1..Len(ksent) : ksent[i].kind = "End"

\* The daemon opens the stream to the listener of the client.
KDaemonConnect ==
    /\ kdaemon = "idle"
    /\ kdaemon' = "connected"
    /\ UNCHANGED <<kpc, kexit, kwire, ksent>>

\* The handler of NewProcess returns before the daemon has connected.
KDaemonReturnEarly ==
    /\ kdaemon = "idle"
    /\ kdaemon' = "gone"
    /\ UNCHANGED <<kpc, kexit, kwire, ksent>>

\* The daemon writes a message; End is the last message it writes.
KDaemonWrite(msg) ==
    /\ kdaemon = "connected"
    /\ Len(ksent) < MaxSent
    /\ ~EndWritten
    /\ kwire' = Append(kwire, msg)
    /\ ksent' = Append(ksent, msg)
    /\ UNCHANGED <<kpc, kexit, kdaemon>>

\* The daemon drops the stream (its handler returned).
KDaemonClose ==
    /\ kdaemon = "connected"
    /\ kdaemon' = "closed"
    /\ UNCHANGED <<kpc, kexit, kwire, ksent>>

\* The handler waits for something that never comes (a make that does not
\* end, a target lock, the hub in handle_log): the stream stays open and
\* nothing more is written.
KDaemonHang ==
    /\ kdaemon = "connected"
    /\ ~EndWritten
    /\ kdaemon' = "hung"
    /\ UNCHANGED <<kpc, kexit, kwire, ksent>>

\* accept_specific_connection: the connection of the daemon is accepted.
KAccept ==
    /\ kpc = "accept"
    /\ kdaemon \in {"connected", "hung", "closed"}
    /\ kpc' = "read"
    /\ UNCHANGED <<kexit, kdaemon, kwire, ksent>>

\* accept_specific_connection: 10 s pass without a connection of the
\* daemon: start returns the error.
KAcceptTimeout ==
    /\ kpc = "accept"
    /\ kdaemon \in {"idle", "gone"}
    /\ kpc' = "exited"
    /\ kexit' = MainErrCode
    /\ UNCHANGED <<kdaemon, kwire, ksent>>

\* One turn of the loop on a message that was read: End breaks with its
\* exit code, a log is printed, a message of another kind makes
\* read_next_message fail and the loop `continue`, a payload that does not
\* decode makes start return the error of dec!.
ClientRead(msg) ==
    CASE msg.kind = "End" -> [pc |-> "exited", code |-> msg.code]
      [] msg.kind = "Undecodable" -> [pc |-> "exited", code |-> MainErrCode]
      [] OTHER -> [pc |-> "read", code |-> NoCode]

\* read_next_message returns the next message of the stream.
KRead ==
    /\ kpc = "read"
    /\ kwire # << >>
    /\ kpc' = ClientRead(Head(kwire)).pc
    /\ kexit' = ClientRead(Head(kwire)).code
    /\ kwire' = Tail(kwire)
    /\ UNCHANGED <<kdaemon, ksent>>

\* read_next_message returns Ok(None): the stream was closed: break 1.
KReadEof ==
    /\ kpc = "read"
    /\ kwire = << >>
    /\ kdaemon = "closed"
    /\ kpc' = "exited"
    /\ kexit' = 1
    /\ UNCHANGED <<kdaemon, kwire, ksent>>

InitClient ==
    /\ InitLockVars /\ InitFreshVars /\ InitAckVars /\ InitBuildVars
    /\ InitStreamVars /\ InitDispatchVars /\ InitExtra

ClientFrame ==
    UNCHANGED <<lockVars, freshVars, ackVars, buildVars, streamVars,
                dispatchVars, mkVars, logVars, genVars, frameVars,
                connVars, mutexVars, configVars, argsVars>>

NextClient ==
    \/ KDaemonConnect /\ ClientFrame
    \/ KDaemonReturnEarly /\ ClientFrame
    \/ \E msg \in ClientMessages : KDaemonWrite(msg) /\ ClientFrame
    \/ KDaemonClose /\ ClientFrame
    \/ KDaemonHang /\ ClientFrame
    \/ KAccept /\ ClientFrame
    \/ KAcceptTimeout /\ ClientFrame
    \/ KRead /\ ClientFrame
    \/ KReadEof /\ ClientFrame

SpecClient == InitClient /\ [][NextClient]_vars

(***************************************************************************)
(* Claims about the client                                                 *)
(***************************************************************************)
\* The daemon will write nothing more and the client has read all it wrote.
DaemonSilent == kdaemon \in {"gone", "hung", "closed"} /\ kwire = << >>

\* C37: when the daemon never writes End (it returned early, or it keeps
\* the stream open and writes nothing more), the client still terminates,
\* with exit code 1: once the daemon is silent without an End the client
\* has exited with 1 or can take a step; and a client that received
\* End{exit_code} has exited with that code.
C37_ClientTerminates ==
    /\ (DaemonSilent /\ ~EndWritten)
       => \/ kpc = "exited" /\ kexit = 1
          \/ ENABLED (KAccept \/ KAcceptTimeout \/ KRead \/ KReadEof)
    /\ (kpc = "exited" /\ EndWritten /\ kwire = << >>)
       => kexit = ksent[Len(ksent)].code

(***************************************************************************)
(* SpecConfig: the daemons of one workspace.  A daemon is an operating     *)
(* system process; State::new refuses to start when is_running finds the   *)
(* process of the os_pid of config.json, and otherwise loads the config    *)
(* file or, when there is none, writes a fresh one.                        *)
(***************************************************************************)
\* DaemonConfig::is_running: the file exists and a process has its os_pid.
is_running(cfg, alive) == cfg # 0 /\ cfg \in alive

\* DaemonConfig::load_or_generate: the os_pid of the file after the call of
\* the process pid: a file that exists is loaded and left as it is.
load_or_generate(cfg, pid) == IF cfg # 0 THEN cfg ELSE pid

\* A new process with os pid p runs State::new.
StateNew(p) ==
    /\ p \notin daemons
    /\ Len(startLog) < MaxStarts
    /\ IF is_running(config_file, daemons)
       THEN /\ startLog' = Append(startLog, [os_pid |-> p, outcome |-> "refused"])
            /\ UNCHANGED <<config_file, daemons>>
       ELSE /\ config_file' = load_or_generate(config_file, p)
            /\ daemons' = daemons \cup {p}
            /\ startLog' = Append(startLog, [os_pid |-> p, outcome |-> "started"])

\* The daemon with os pid p exits (the config file stays).
DaemonExit(p) ==
    /\ p \in daemons
    /\ daemons' = daemons \ {p}
    /\ UNCHANGED <<config_file, startLog>>

InitConfig ==
    /\ InitLockVars /\ InitFreshVars /\ InitAckVars /\ InitBuildVars
    /\ InitStreamVars /\ InitDispatchVars /\ InitExtra

ConfigFrame ==
    UNCHANGED <<lockVars, freshVars, ackVars, buildVars, streamVars,
                dispatchVars, mkVars, logVars, genVars, frameVars,
                connVars, mutexVars, clientVars, argsVars>>

NextConfig ==
    \/ \E p \in OsPids : StateNew(p) /\ ConfigFrame
    \/ \E p \in OsPids : DaemonExit(p) /\ ConfigFrame

SpecConfig == InitConfig /\ [][NextConfig]_vars

(***************************************************************************)
(* Claims about the config file                                            *)
(***************************************************************************)
\* C38: for any sequence of starts and exits of daemons on the workspace, a
\* State::new that runs while a daemon started earlier is still running is
\* refused: no daemon is added to the running ones.
C38_SecondDaemonRefused ==
    [][ \A p \in OsPids :
          (StateNew(p) /\ daemons # {})
          => /\ daemons' = daemons
             /\ startLog'[Len(startLog')].outcome = "refused" ]_vars

(***************************************************************************)
(* SpecArgs: the args of a build.  The caller appends `--file` and the     *)
(* name of its temporary makefile to the arguments of the user and sends   *)
(* them in NewProcess; new_process filters them with remove_x_and_next and *)
(* stores the result in the ProcessDatas every participant gets; a fetch   *)
(* handler runs make with the stored args.                                 *)
(***************************************************************************)
\* The arguments a user gives to dake.
ArgWords == {"--file", "-j", "all"}
UserArgs == UNION {[1..n -> ArgWords] : n \in 0..MaxArgs}

\* caller::make: args.append(["--file", TMP_MAKEFILE_NAME]).
CallerArgs(user) == user \o <<"--file", TMP_MAKEFILE_NAME>>

\* The closure of the filter of remove_x_and_next on element i of v: an
\* element is dropped when skip_next is set (which resets it) or when it is
\* x (which sets it), and kept otherwise.
FilterStep(v, i, skip_next) ==
    IF skip_next THEN [keep |-> FALSE, skip_next |-> FALSE]
    ELSE IF v[i] = "--file" THEN [keep |-> FALSE, skip_next |-> TRUE]
    ELSE [keep |-> TRUE, skip_next |-> FALSE]

\* remove_x_and_next(&args, "--file"): the iterator takes the next element.
ArgsFilter ==
    /\ xpos < Len(xargs)
    /\ LET r == FilterStep(xargs, xpos + 1, xskip)
       IN  /\ xout' = IF r.keep THEN Append(xout, xargs[xpos + 1]) ELSE xout
           /\ xskip' = r.skip_next
    /\ xpos' = xpos + 1
    /\ UNCHANGED <<xargs, xmake>>

\* handle_fetch on a participant: read_args gives the args of the
\* ProcessDatas, execute_make passes them to make.
ArgsMake ==
    /\ xpos = Len(xargs)
    /\ ~xmake.run
    /\ xmake' = [run |-> TRUE, args |-> xout]
    /\ UNCHANGED <<xargs, xpos, xskip, xout>>

\* new_process has received NewProcess with the args of the caller.
InitArgs ==
    /\ InitLockVars /\ InitFreshVars /\ InitAckVars /\ InitBuildVars
    /\ InitStreamVars /\ InitDispatchVars /\ InitMkVars /\ InitLogVars
    /\ InitGenVars /\ InitFrameVars /\ InitConnVars /\ InitMutexVars
    /\ InitConfigVars /\ InitClientVars
    /\ xargs \in {CallerArgs(u) : u \in UserArgs}
    /\ xpos = 0
    /\ xskip = FALSE
    /\ xout = << >>
    /\ xmake = NoMake

ArgsFrame ==
    UNCHANGED <<lockVars, freshVars, ackVars, buildVars, streamVars,
                dispatchVars, mkVars, logVars, genVars, frameVars,
                connVars, mutexVars, configVars, clientVars>>

NextArgs ==
    \/ ArgsFilter /\ ArgsFrame
    \/ ArgsMake /\ ArgsFrame

SpecArgs == InitArgs /\ [][NextArgs]_vars

(***************************************************************************)
(* Claims about the args                                                   *)
(***************************************************************************)
\* The positions of v that hold `--file` or follow a `--file`.
FilePairs(v) ==
    {i \in 1..Len(v) : v[i] = "--file" \/ (i > 1 /\ v[i - 1] = "--file")}

\* v without the elements at the positions of drop, in order.
RECURSIVE Without(_, _, _)
Without(v, drop, i) ==
    IF i > Len(v) THEN << >>
    ELSE (IF i \in drop THEN << >> ELSE <<v[i]>>) \o Without(v, drop, i + 1)

\* C40: the args of the ProcessDatas are the args of the caller without
\* every `--file` element and without the element that follows it, the
\* others in their order, whatever the list (one that ends in `--file`, one
\* with consecutive `--file`); and no participant's make gets `--file` or
\* the name of the temporary makefile.
C40_FilePairsStripped ==
    /\ xpos = Len(xargs) => xout = Without(xargs, FilePairs(xargs), 1)
    /\ xmake.run
       => \A i \in 1..Len(xmake.args) :
              xmake.args[i] \notin {"--file", TMP_MAKEFILE_NAME}

====
